---- MODULE Spec2Model ----
(***************************************************************************)
(* The backstop notification engine of gemini-cli-ntfy                     *)
(* (pkg/notification/backstop_notifier.go) as a state machine.             *)
(*                                                                         *)
(* A time.Timer created by time.AfterFunc is modelled by its deadline.     *)
(* `armed` holds the deadlines of the timers that are scheduled and have   *)
(* neither fired nor been stopped; when a timer fires, the runtime starts  *)
(* sendBackstopNotification in a goroutine of its own, which then waits    *)
(* for bn.mu: `pending` holds the deadlines of the callbacks that have     *)
(* been started and have not yet acquired the lock.  timer.Stop() removes  *)
(* a timer from `armed` and has no effect on a timer that already fired.   *)
(*                                                                         *)
(* Every method holds bn.mu from its first to its last statement, so a     *)
(* method is one atomic step, except where it calls the underlying         *)
(* notifier with the lock held (Send, sendBackstopNotification): there     *)
(* the step that takes the lock and the step that returns are separate.    *)
(*                                                                         *)
(* lastActivityTime, lastNotificationTime and lastUserInteraction are      *)
(* written by the methods and read nowhere; they are left out.             *)
(*                                                                         *)
(* The output path (pkg/monitor/output_monitor.go) is modelled on bytes:   *)
(* the sequence detector with its rolling buffer, containsVisibleContent,  *)
(* and HandleData, whose calls of the engine are made one after the other  *)
(* as the engine's lock admits them.                                       *)
(***************************************************************************)
EXTENDS Integers, Sequences, FiniteSets, TLC

\* ---------------------------------------------------------------- bounds
\* The timeout of the engines explored under arbitrary interleavings.
Timeout == 2
\* The clock stops at MaxTime under arbitrary interleavings.
MaxTime == 5
\* Pass-through Send calls per run under arbitrary interleavings.
MaxSends == 1

\* A stream longer than MaxSplit is written in chunks of FillerChunk bytes;
\* what is left when it is MaxSplit long or shorter is split in every way.
MaxSplit == 12
FillerChunk == 300
\* The chunks given to containsVisibleContent are at most MaxData bytes long.
MaxData == 4
\* Flush calls per run on the output path.
MaxFlushes == 1
\* PTYManager.Start calls per run.
MaxStarts == 2
\* Stop calls per run, besides the one Manager.Wait makes.
MaxStops == 2

\* ------------------------------------------------------------- constants
\* DefaultConfig: BackstopTimeout: 30 * time.Second
DefaultBackstopTimeout == 30
\* bn.timer == nil
NoTimer == -1

VARIABLES
    timeout,          \* bn.timeout
    backstopSent,     \* bn.backstopSent
    backstopDisabled, \* bn.backstopDisabled
    idleNotificationSentSinceLastInteraction,
    timer,            \* bn.timer: NoTimer, or the deadline of the stored timer
    armed,            \* deadlines of the timers scheduled and not fired/stopped
    pending,          \* deadlines of the callbacks started, waiting for bn.mu
    mu,               \* bn.mu: "free", or who holds it across underlying.Send
    running,          \* the deadline of the callback that holds bn.mu
    now,              \* the clock
    env,              \* the caller: arbitrary, or one scripted sequence
    obs,              \* what an observer of the engine has recorded
    buffer,           \* TerminalSequenceDetector.buffer
    lineBuffer,       \* OutputMonitor.lineBuffer
    terminalState,    \* OutputMonitor.terminalState
    out,              \* the child's output: the stream, and what is left of it
    seen,             \* the callbacks the detector has made
    proc,             \* the PTY manager, its goroutines and the child
    locks             \* the owners of the three mutexes, and what each
                      \* goroutine has still to lock and unlock

engineVars == <<timeout, backstopSent, backstopDisabled,
                idleNotificationSentSinceLastInteraction, timer, armed,
                pending, mu, running, now, env, obs>>

monitorVars == <<buffer, lineBuffer, terminalState, out, seen, proc, locks>>

vars == <<engineVars, monitorVars>>

flags == <<backstopSent, backstopDisabled,
           idleNotificationSentSinceLastInteraction>>

\* ------------------------------------------------------------ the caller
\* The end-to-end sequences: each step is one call at one time, `end` is
\* the time at which the sequence stops waiting.
Scripts ==
    { [free |-> FALSE, quiet |-> FALSE, name |-> "idle", steps |-> <<>>, end |-> 35],
      [free |-> FALSE, quiet |-> FALSE, name |-> "output",
       steps |-> << [at |-> 10, op |-> "MarkActivity"] >>, end |-> 45],
      [free |-> FALSE, quiet |-> FALSE, name |-> "keypress",
       steps |-> << [at |-> 10, op |-> "DisableBackstopTimer"] >>, end |-> 45],
      [free |-> FALSE, quiet |-> FALSE, name |-> "clear",
       steps |-> << [at |-> 35, op |-> "ResetSession"] >>, end |-> 70],
      [free |-> FALSE, quiet |-> FALSE, name |-> "again",
       steps |-> << [at |-> 35, op |-> "DisableBackstopTimer"],
                    [at |-> 36, op |-> "MarkActivity"] >>, end |-> 70] }

\* Any call at any time.
FreeCaller ==
    [free |-> TRUE, quiet |-> FALSE, name |-> "free", steps |-> <<>>,
     end |-> MaxTime]

\* Any call at any time, with cfg.Quiet set.
QuietCaller == [FreeCaller EXCEPT !.quiet = TRUE]

\* No callback is waiting for the lock and nobody holds it.
Settled == pending = {} /\ mu = "free"

\* The one Send of the program is the startup notification of
\* Application.Run, which is skipped when cfg.Quiet is set; NewDependencies
\* wires every other call whatever cfg.Quiet is.
Configured(op) == op = "Send" => ~env.quiet

\* HandleData makes its calls in order, each when the engine lets it in.
Queued(op) == env.steps # <<>> /\ Head(env.steps).op = op

\* The caller makes the call `op` now.
Permit(op) ==
    IF env.free
    THEN Configured(op)
    ELSE IF env.name = "monitor"
    THEN Queued(op)
    ELSE /\ env.steps # <<>>
         /\ Head(env.steps).op = op
         /\ Head(env.steps).at = now
         /\ Settled

Advance ==
    env' = IF env.free THEN env ELSE [env EXCEPT !.steps = Tail(@)]

\* ---------------------------------------------------------- the observer
ObsInit ==
    [ lastOp               |-> "NewBackstopNotifier",
      delivered            |-> 0,      \* backstop delivery calls made
      forwarded            |-> 0,      \* pass-through notifications forwarded
      windowDelivered      |-> FALSE,  \* delivered since the last keypress/reset
      interactionDelivered |-> FALSE,  \* delivered since the last keypress
      interactionReset     |-> FALSE,  \* a reset since the last keypress
      bellSinceReset       |-> FALSE,  \* a bell since the last reset
      keypressLast         |-> FALSE,  \* a keypress, no activity or reset since
      notBefore            |-> 0,      \* t + T of the last activity during a countdown
      cancelled            |-> {},     \* started callbacks a bell/keypress came before
      closed               |-> FALSE,  \* Close has returned
      failed               |-> FALSE ] \* a delivery failed since the last keypress/reset

\* Nothing has been called back yet.
SeenInit ==
    [ calls |-> 0,      \* DetectSequences calls made
      last  |-> <<>>,   \* the callbacks of the last call, in order
      fired |-> <<>> ]  \* the callbacks of all calls, in order

\* The child writes `stream`; handler is FALSE for a nil handler.
Output(kind, stream, handler) ==
    [ kind |-> kind, stream |-> stream, handler |-> handler,
      rest    |-> stream,  \* not yet written
      fed     |-> <<>>,    \* written so far
      visible |-> FALSE,   \* containsVisibleContent of the last chunk
      lines   |-> <<>>,    \* written so far, each Flush ending the line
      bells   |-> 0,       \* SetBackstopSent(true) calls of the bell scan
      rang    |-> FALSE,   \* the last chunk ended a line that has a bell
      flushes |-> 0 ]      \* Flush calls made

\* NewTerminalState: focused by default, no title.
NewTerminalState == [title |-> <<>>, focused |-> TRUE, lastFocusChange |-> 0]

\* NewOutputMonitor, with NewTerminalSequenceDetector and NewTerminalState:
\* the buffers are empty.
\* The mutexes om.mu, bn.mu and ts.mu, and the goroutines that take them:
\* the PTY-to-stdout loop (HandleData), the stdin loop (the input handler),
\* the timer callback and the main goroutine (the startup Send).
Mutexes == {"om.mu", "bn.mu", "ts.mu"}

Goroutines == {"output", "input", "timer", "main"}

\* No mutex is held and no goroutine is inside a call.
NoLocks ==
    [ owner |-> [m \in Mutexes |-> "none"],
      todo  |-> [g \in Goroutines |-> <<>>] ]

\* NewPTYManager, with the real terminal in its original mode and no
\* child.
NewPTYManager ==
    [ cmd         |-> FALSE,     \* p.cmd != nil
      pty         |-> "nil",     \* p.pty: "nil", "open", "closed"
      stopChan    |-> "open",    \* p.stopChan: "open", "closed"
      restoreFunc |-> FALSE,     \* p.restoreFunc != nil
      watcher     |-> "none",    \* monitorTerminalSize: "none", "running", "returned"
      child       |-> "none",    \* the child: "none", "running", "exited"
      children    |-> 0,         \* children started
      logged      |-> FALSE,     \* a failure to copy the terminal size was logged
      mode        |-> "original",\* the real terminal: "original", "raw"
      acquired    |-> 0,         \* successful setRawMode calls
      restored    |-> 0,         \* calls of the restore function
      copyIO      |-> "none",    \* where CopyIO is
      input       |-> "none",    \* the stdin loop: "none", "copying", "ended"
      output      |-> "none",    \* the PTY loop: "none", "copying", "ended"
      errChan     |-> <<>>,      \* errChan
      failed      |-> <<>>,      \* the loops that failed, in order
      wait        |-> "none",    \* where PTYManager.Wait is
      managerWait |-> "none",    \* where Manager.Wait is
      starts      |-> 0,         \* Start calls made
      stops       |-> 0,         \* Stop calls made
      given       |-> <<>>,      \* whether the last Start could create and size the PTY
      err         |-> "nil",     \* what the last Start, Wait or Stop returned
      copyErr     |-> "nil",     \* what CopyIO returned
      last        |-> "NewPTYManager" ]

NewOutputMonitor ==
    /\ buffer = <<>>
    /\ lineBuffer = <<>>
    /\ terminalState = NewTerminalState
    /\ seen = SeenInit

\* The child writes nothing.
MonitorIdle ==
    /\ NewOutputMonitor
    /\ out = Output("none", <<>>, TRUE)
    /\ proc = NewPTYManager
    /\ locks = NoLocks

\* ------------------------------------------------------------------ Init
\* Faulty variant: the constructor does not call startTimer.
NewBackstopNotifierNoTimer(t, caller) ==
    /\ timeout = t
    /\ backstopSent = FALSE
    /\ backstopDisabled = FALSE
    /\ idleNotificationSentSinceLastInteraction = FALSE
    /\ now = 0
    /\ timer = NoTimer
    /\ armed = {}
    /\ pending = {}
    /\ mu = "free"
    /\ running = NoTimer
    /\ env = caller
    /\ obs = ObsInit

\* NewBackstopNotifier: the flags are false, and startTimer arms the first
\* timer when timeout > 0.
NewBackstopNotifier(t, caller) ==
    /\ timeout = t
    /\ backstopSent = FALSE
    /\ backstopDisabled = FALSE
    /\ idleNotificationSentSinceLastInteraction = FALSE
    /\ now = 0
    /\ timer = IF t > 0 THEN t ELSE NoTimer
    /\ armed = IF t > 0 THEN {t} ELSE {}
    /\ pending = {}
    /\ mu = "free"
    /\ running = NoTimer
    /\ env = caller
    /\ obs = ObsInit

FreeInit ==
    \E t \in {-1, 0, Timeout} :
        \E caller \in {FreeCaller, QuietCaller} :
            NewBackstopNotifier(t, caller) /\ MonitorIdle

ScenarioInit ==
    \E s \in Scripts :
        \E t \in (IF s.name = "idle" THEN 1..DefaultBackstopTimeout
                                     ELSE {DefaultBackstopTimeout}) :
            NewBackstopNotifier(t, s) /\ MonitorIdle

Init == FreeInit \/ ScenarioInit

\* --------------------------------------------------------------- helpers
\* Faulty variant: Stop leaves the stored timer armed.
StopTimerNoOp == armed

\* if bn.timer != nil { bn.timer.Stop() }
StopTimer == armed \ {timer}

\* Faulty variant: the timer is armed whatever bn.timeout is.
RestartTimerAlways ==
    /\ timer' = now + timeout
    /\ armed' = StopTimer \cup {now + timeout}

\* Stop, then if bn.timeout > 0 { bn.timer = time.AfterFunc(bn.timeout, ...) }
RestartTimer ==
    IF timeout > 0
    THEN /\ timer' = now + timeout
         /\ armed' = StopTimer \cup {now + timeout}
    ELSE /\ timer' = timer
         /\ armed' = StopTimer

\* ------------------------------------------------------------ operations
\* Faulty variant: Send also clears idleNotificationSentSinceLastInteraction.
SendClearsInteractionFlag ==
    /\ Permit("Send")
    /\ mu = "free"
    /\ obs.forwarded < MaxSends
    /\ backstopSent' = FALSE
    /\ idleNotificationSentSinceLastInteraction' = FALSE
    /\ RestartTimer
    /\ mu' = "send"
    /\ obs' = [obs EXCEPT !.lastOp = "Send", !.forwarded = @ + 1]
    /\ Advance
    /\ UNCHANGED <<monitorVars, timeout, backstopDisabled, pending, running, now>>

\* Faulty variant: Send also clears backstopDisabled, as MarkActivity does.
SendClearsDisabled ==
    /\ Permit("Send")
    /\ mu = "free"
    /\ obs.forwarded < MaxSends
    /\ backstopSent' = FALSE
    /\ backstopDisabled' = FALSE
    /\ RestartTimer
    /\ mu' = "send"
    /\ obs' = [obs EXCEPT !.lastOp = "Send", !.forwarded = @ + 1]
    /\ Advance
    /\ UNCHANGED <<monitorVars, timeout, idleNotificationSentSinceLastInteraction, pending,
                   running, now>>

\* Faulty variant: Send arms the new timer without stopping the stored one.
SendNoStop ==
    /\ Permit("Send")
    /\ mu = "free"
    /\ obs.forwarded < MaxSends
    /\ backstopSent' = FALSE
    /\ IF timeout > 0
       THEN timer' = now + timeout /\ armed' = armed \cup {now + timeout}
       ELSE UNCHANGED <<timer, armed>>
    /\ mu' = "send"
    /\ obs' = [obs EXCEPT !.lastOp = "Send", !.forwarded = @ + 1]
    /\ Advance
    /\ UNCHANGED <<monitorVars, timeout, backstopDisabled,
                   idleNotificationSentSinceLastInteraction, pending, running,
                   now>>

\* Send: under the lock, clear backstopSent, restart the timer and forward
\* the notification to the underlying notifier; the lock is released when
\* the underlying Send has returned.  backstopDisabled is left alone.
Send ==
    /\ Permit("Send")
    /\ mu = "free"
    /\ obs.forwarded < MaxSends
    /\ backstopSent' = FALSE
    /\ RestartTimer
    /\ mu' = "send"
    /\ obs' = [obs EXCEPT !.lastOp = "Send", !.forwarded = @ + 1]
    /\ Advance
    /\ UNCHANGED <<monitorVars, timeout, backstopDisabled,
                   idleNotificationSentSinceLastInteraction, pending, running,
                   now>>

\* return bn.underlying.Send(notification), and the deferred Unlock
SendReturn ==
    /\ mu = "send"
    /\ mu' = "free"
    /\ obs' = [obs EXCEPT !.lastOp = "SendReturn"]
    /\ UNCHANGED <<monitorVars, timeout, flags, timer, armed, pending, running, now, env>>

\* Faulty variant: MarkActivity arms the new timer without stopping the
\* stored one.
MarkActivityNoStop ==
    /\ Permit("MarkActivity")
    /\ mu = "free"
    /\ backstopSent' = FALSE
    /\ backstopDisabled' = FALSE
    /\ IF timeout > 0
       THEN timer' = now + timeout /\ armed' = armed \cup {now + timeout}
       ELSE UNCHANGED <<timer, armed>>
    /\ obs' = [obs EXCEPT !.lastOp = "MarkActivity",
                          !.keypressLast = FALSE,
                          !.notBefore = IF timer \in armed
                                        THEN now + timeout ELSE @]
    /\ Advance
    /\ UNCHANGED <<monitorVars, timeout, idleNotificationSentSinceLastInteraction, pending,
                   mu, running, now>>

\* Faulty variant: MarkActivity also clears
\* idleNotificationSentSinceLastInteraction.
MarkActivityClearsInteractionFlag ==
    /\ Permit("MarkActivity")
    /\ mu = "free"
    /\ backstopSent' = FALSE
    /\ backstopDisabled' = FALSE
    /\ idleNotificationSentSinceLastInteraction' = FALSE
    /\ RestartTimer
    /\ obs' = [obs EXCEPT !.lastOp = "MarkActivity",
                          !.keypressLast = FALSE,
                          !.notBefore = IF timer \in armed
                                        THEN now + timeout ELSE @]
    /\ Advance
    /\ UNCHANGED <<monitorVars, timeout, pending, mu, running, now>>

\* MarkActivity: clear backstopSent and backstopDisabled, restart the timer.
MarkActivity ==
    /\ Permit("MarkActivity")
    /\ mu = "free"
    /\ backstopSent' = FALSE
    /\ backstopDisabled' = FALSE
    /\ RestartTimer
    /\ obs' = [obs EXCEPT !.lastOp = "MarkActivity",
                          !.keypressLast = FALSE,
                          !.notBefore = IF timer \in armed
                                        THEN now + timeout ELSE @]
    /\ Advance
    /\ UNCHANGED <<monitorVars, timeout, idleNotificationSentSinceLastInteraction, pending,
                   mu, running, now>>

\* Faulty variant: SetBackstopSent also clears
\* idleNotificationSentSinceLastInteraction.
SetBackstopSentClearsInteractionFlag(sent) ==
    /\ Permit("SetBackstopSent")
    /\ mu = "free"
    /\ backstopSent' = sent
    /\ idleNotificationSentSinceLastInteraction' = FALSE
    /\ armed' = IF sent THEN StopTimer ELSE armed
    /\ obs' = [obs EXCEPT !.lastOp = "SetBackstopSent",
                          !.bellSinceReset = IF sent THEN TRUE ELSE @,
                          !.cancelled = IF sent THEN @ \cup pending ELSE @]
    /\ Advance
    /\ UNCHANGED <<monitorVars, timeout, backstopDisabled, timer, pending,
                   mu, running, now>>

\* SetBackstopSent(sent): store the flag; stop the timer when sent.
SetBackstopSent(sent) ==
    /\ Permit("SetBackstopSent")
    /\ mu = "free"
    /\ backstopSent' = sent
    /\ armed' = IF sent THEN StopTimer ELSE armed
    /\ obs' = [obs EXCEPT !.lastOp = "SetBackstopSent",
                          !.bellSinceReset = IF sent THEN TRUE ELSE @,
                          !.cancelled = IF sent THEN @ \cup pending ELSE @]
    /\ Advance
    /\ UNCHANGED <<monitorVars, timeout, backstopDisabled,
                   idleNotificationSentSinceLastInteraction, timer, pending,
                   mu, running, now>>

\* processLine is the only caller: backstopSetter.SetBackstopSent(true)
BellValues == {TRUE}

\* Faulty variant: ResetSession leaves
\* idleNotificationSentSinceLastInteraction as it was.
ResetSessionKeepsInteractionFlag ==
    /\ Permit("ResetSession")
    /\ mu = "free"
    /\ backstopSent' = FALSE
    /\ backstopDisabled' = FALSE
    /\ RestartTimer
    /\ obs' = [obs EXCEPT !.lastOp = "ResetSession",
                          !.windowDelivered = FALSE,
                          !.interactionReset = TRUE,
                          !.failed = FALSE,
                          !.bellSinceReset = FALSE,
                          !.keypressLast = FALSE]
    /\ Advance
    /\ UNCHANGED <<monitorVars, timeout, idleNotificationSentSinceLastInteraction, pending,
                   mu, running, now>>

\* ResetSession: clear the three flags, restart the timer.
ResetSession ==
    /\ Permit("ResetSession")
    /\ mu = "free"
    /\ backstopSent' = FALSE
    /\ backstopDisabled' = FALSE
    /\ idleNotificationSentSinceLastInteraction' = FALSE
    /\ RestartTimer
    /\ obs' = [obs EXCEPT !.lastOp = "ResetSession",
                          !.windowDelivered = FALSE,
                          !.interactionReset = TRUE,
                          !.failed = FALSE,
                          !.bellSinceReset = FALSE,
                          !.keypressLast = FALSE]
    /\ Advance
    /\ UNCHANGED <<monitorVars, timeout, pending, mu, running, now>>

\* Faulty variant: DisableBackstopTimer leaves
\* idleNotificationSentSinceLastInteraction as it is.
DisableBackstopTimerKeepsInteractionFlag ==
    /\ Permit("DisableBackstopTimer")
    /\ mu = "free"
    /\ backstopDisabled' = TRUE
    /\ armed' = StopTimer
    /\ obs' = [obs EXCEPT !.lastOp = "DisableBackstopTimer",
                          !.windowDelivered = FALSE,
                          !.interactionDelivered = FALSE,
                          !.interactionReset = FALSE,
                          !.failed = FALSE,
                          !.keypressLast = TRUE,
                          !.cancelled = @ \cup pending]
    /\ Advance
    /\ UNCHANGED <<monitorVars, timeout, backstopSent,
                   idleNotificationSentSinceLastInteraction, timer, pending,
                   mu, running, now>>

\* DisableBackstopTimer: set backstopDisabled, clear
\* idleNotificationSentSinceLastInteraction, stop the timer.
DisableBackstopTimer ==
    /\ Permit("DisableBackstopTimer")
    /\ mu = "free"
    /\ backstopDisabled' = TRUE
    /\ idleNotificationSentSinceLastInteraction' = FALSE
    /\ armed' = StopTimer
    /\ obs' = [obs EXCEPT !.lastOp = "DisableBackstopTimer",
                          !.windowDelivered = FALSE,
                          !.interactionDelivered = FALSE,
                          !.interactionReset = FALSE,
                          !.failed = FALSE,
                          !.keypressLast = TRUE,
                          !.cancelled = @ \cup pending]
    /\ Advance
    /\ UNCHANGED <<monitorVars, timeout, backstopSent, timer, pending, mu, running, now>>

\* Close: stop the timer; nothing else is recorded.
Close ==
    /\ Permit("Close")
    /\ mu = "free"
    /\ armed' = StopTimer
    /\ obs' = [obs EXCEPT !.lastOp = "Close", !.closed = TRUE]
    /\ Advance
    /\ UNCHANGED <<monitorVars, timeout, flags, timer, pending, mu, running, now>>

\* ---------------------------------------------------------------- timers
\* The runtime fires a timer at its deadline and starts its callback.
TimerFire(d) ==
    /\ d \in armed
    /\ now >= d
    /\ armed' = armed \ {d}
    /\ pending' = pending \cup {d}
    /\ obs' = [obs EXCEPT !.lastOp = "TimerFire"]
    /\ UNCHANGED <<monitorVars, timeout, flags, timer, mu, running, now, env>>

\* Faulty variant: the callback checks backstopSent and backstopDisabled
\* only.
sendBackstopNotificationNoInteractionCheck(d) ==
    /\ d \in pending
    /\ mu = "free"
    /\ pending' = pending \ {d}
    /\ IF backstopSent \/ backstopDisabled
       THEN /\ obs' = [obs EXCEPT !.lastOp = "sendBackstopNotification",
                                  !.cancelled = @ \ {d}]
            /\ UNCHANGED <<flags, mu, running>>
       ELSE /\ backstopSent' = TRUE
            /\ idleNotificationSentSinceLastInteraction' = TRUE
            /\ mu' = "callback"
            /\ running' = d
            /\ obs' = [obs EXCEPT !.lastOp = "sendBackstopNotification",
                                  !.delivered = @ + 1,
                                  !.windowDelivered = TRUE,
                                  !.interactionDelivered = TRUE,
                                  !.cancelled = @ \ {d}]
            /\ UNCHANGED backstopDisabled
    /\ UNCHANGED <<monitorVars, timeout, timer, armed, now, env>>

\* sendBackstopNotification, from the Lock to the call of underlying.Send:
\* return when a flag is set; otherwise set backstopSent and
\* idleNotificationSentSinceLastInteraction and make the delivery call,
\* still holding the lock.  No timer is started.
sendBackstopNotification(d) ==
    /\ d \in pending
    /\ mu = "free"
    /\ pending' = pending \ {d}
    /\ IF backstopSent \/ backstopDisabled
          \/ idleNotificationSentSinceLastInteraction
       THEN /\ obs' = [obs EXCEPT !.lastOp = "sendBackstopNotification",
                                  !.cancelled = @ \ {d}]
            /\ UNCHANGED <<flags, mu, running>>
       ELSE /\ backstopSent' = TRUE
            /\ idleNotificationSentSinceLastInteraction' = TRUE
            /\ mu' = "callback"
            /\ running' = d
            /\ obs' = [obs EXCEPT !.lastOp = "sendBackstopNotification",
                                  !.delivered = @ + 1,
                                  !.windowDelivered = TRUE,
                                  !.interactionDelivered = TRUE,
                                  !.cancelled = @ \ {d}]
            /\ UNCHANGED backstopDisabled
    /\ UNCHANGED <<monitorVars, timeout, timer, armed, now, env>>

\* Faulty variant: the callback arms the timer again before it returns.
DeliveryReturnRestartsTimer ==
    /\ mu = "callback"
    /\ mu' = "free"
    /\ running' = NoTimer
    /\ RestartTimer
    /\ obs' = [obs EXCEPT !.lastOp = "DeliveryReturn"]
    /\ UNCHANGED <<monitorVars, timeout, flags, pending, now, env>>

\* _ = bn.underlying.Send(notification) returns (its error is dropped), and
\* the deferred Unlock.
DeliveryReturn ==
    /\ mu = "callback"
    /\ mu' = "free"
    /\ running' = NoTimer
    /\ obs' = [obs EXCEPT !.lastOp = "DeliveryReturn"]
    /\ UNCHANGED <<monitorVars, timeout, flags, timer, armed, pending, now, env>>

\* Faulty variant: a failed delivery is retried: the flags are cleared and
\* the timer is armed again.
DeliveryFailsRetries ==
    /\ mu = "callback"
    /\ mu' = "free"
    /\ running' = NoTimer
    /\ backstopSent' = FALSE
    /\ idleNotificationSentSinceLastInteraction' = FALSE
    /\ RestartTimer
    /\ obs' = [obs EXCEPT !.lastOp = "DeliveryFails", !.failed = TRUE]
    /\ UNCHANGED <<monitorVars, timeout, backstopDisabled, pending, now, env>>

\* _ = bn.underlying.Send(notification) returns an error: the error is
\* assigned to the blank identifier, and the deferred Unlock runs.
DeliveryFails ==
    /\ mu = "callback"
    /\ mu' = "free"
    /\ running' = NoTimer
    /\ obs' = [obs EXCEPT !.lastOp = "DeliveryFails", !.failed = TRUE]
    /\ UNCHANGED <<monitorVars, timeout, flags, timer, armed, pending, now, env>>

\* One time unit passes.  A timer fires at its deadline, not later; the
\* scripted caller makes its next call at the time the script names.
Tick ==
    /\ now < (IF env.free \/ env.steps = <<>>
              THEN env.end ELSE Head(env.steps).at)
    /\ \A d \in armed : now < d
    /\ now' = now + 1
    /\ obs' = [obs EXCEPT !.lastOp = "Tick"]
    /\ UNCHANGED <<monitorVars, timeout, flags, timer, armed, pending, mu, running, env>>

\* -------------------------------------------------------- specifications
Fire == \E d \in armed : TimerFire(d)

Callback == \E d \in pending : sendBackstopNotification(d)

Bell == \E sent \in BellValues : SetBackstopSent(sent)

Next ==
    \/ Send
    \/ SendReturn
    \/ MarkActivity
    \/ Bell
    \/ ResetSession
    \/ DisableBackstopTimer
    \/ Close
    \/ Fire
    \/ Callback
    \/ DeliveryReturn
    \/ DeliveryFails
    \/ Tick

Spec == Init /\ [][Next]_vars

\* The scripted sequences alone.  The runtime fires due timers, schedules
\* started goroutines, the delivery call returns (the HTTP client has a
\* timeout), the caller makes its calls, and time passes.
ScenarioNext ==
    \/ MarkActivity
    \/ ResetSession
    \/ DisableBackstopTimer
    \/ Fire
    \/ Callback
    \/ DeliveryReturn
    \/ Tick

ScenarioSpec ==
    /\ ScenarioInit
    /\ [][ScenarioNext]_vars
    /\ WF_vars(MarkActivity)
    /\ WF_vars(ResetSession)
    /\ WF_vars(DisableBackstopTimer)
    /\ WF_vars(Fire)
    /\ WF_vars(Callback)
    /\ WF_vars(DeliveryReturn)
    /\ WF_vars(Tick)

\* ---------------------------------------------------------- the detector
\* Bytes are numbers; text is written as a tuple of one-character strings.
ESC == 27
BEL == 7

Ascii ==
    "[" :> 91 @@ "]" :> 93 @@ "\\" :> 92 @@ "(" :> 40 @@ ")" :> 41 @@
    ";" :> 59 @@ "?" :> 63 @@ "0" :> 48 @@ "1" :> 49 @@ "2" :> 50 @@
    "3" :> 51 @@ "4" :> 52 @@ "5" :> 53 @@ "7" :> 55 @@ "9" :> 57 @@
    "A" :> 65 @@ "B" :> 66 @@ "D" :> 68 @@ "H" :> 72 @@ "I" :> 73 @@
    "J" :> 74 @@ "K" :> 75 @@ "M" :> 77 @@ "O" :> 79 @@ "S" :> 83 @@
    "T" :> 84 @@ "a" :> 97 @@ "b" :> 98 @@ "c" :> 99 @@ "f" :> 102 @@
    "h" :> 104 @@ "l" :> 108 @@ "m" :> 109 @@ "r" :> 114 @@ "x" :> 120

A(s) == [i \in 1..Len(s) |-> Ascii[s[i]]]

\* "\033..."
Esc(s) == <<ESC>> \o A(s)

screenClearSequences ==
    << Esc(<<"[", "2", "J">>),
       Esc(<<"[", "3", "J">>),
       Esc(<<"[", "H">>),
       Esc(<<"[", "0", "J">>),
       Esc(<<"[", "1", "J">>),
       Esc(<<"c">>) >>

statusInterferingSequences ==
    << Esc(<<"[", "r">>),
       Esc(<<"[", "?", "4", "7", "h">>),
       Esc(<<"[", "?", "1", "0", "4", "7", "h">>),
       Esc(<<"[", "?", "1", "0", "4", "9", "h">>),
       Esc(<<"[", "?", "4", "7", "l">>),
       Esc(<<"[", "?", "1", "0", "4", "7", "l">>),
       Esc(<<"[", "?", "1", "0", "4", "9", "l">>),
       Esc(<<"D">>),
       Esc(<<"M">>),
       Esc(<<"[", "S">>),
       Esc(<<"[", "T">>) >>

focusInSequence == Esc(<<"[", "I">>)

focusOutSequence == Esc(<<"[", "O">>)

\* maxBufferSize := 512
maxBufferSize == 512

Range(f) == { f[i] : i \in DOMAIN f }

\* data[i], counted from 0 as the code counts
At(data, i) == data[i + 1]

Least(S) == CHOOSE x \in S : \A y \in S : x <= y

\* bytes.Contains(b, seq)
Contains(b, seq) ==
    \E i \in 1..(Len(b) - Len(seq) + 1) : SubSeq(b, i, i + Len(seq) - 1) = seq

ContainsAny(b, seqs) == \E n \in 1..Len(seqs) : Contains(b, seqs[n])

\* detectBottomLineClear, one round of its loop: ESC [ at i, the first H or
\* f after it at j, and ESC [ K or ESC [ 2 K beginning within 20 bytes of j.
PositionThenErase(data, i) ==
    /\ At(data, i) = ESC
    /\ At(data, i + 1) = Ascii["["]
    /\ LET hf == { j \in (i + 2)..(Len(data) - 1) :
                     At(data, j) \in {Ascii["H"], Ascii["f"]} }
       IN /\ hf # {}
          /\ \E k \in (Least(hf) + 1)..(Len(data) - 3) :
                /\ k < Least(hf) + 20
                /\ At(data, k) = ESC
                /\ At(data, k + 1) = Ascii["["]
                /\ \/ At(data, k + 2) = Ascii["K"]
                   \/ /\ k + 3 < Len(data)
                      /\ At(data, k + 2) = Ascii["2"]
                      /\ At(data, k + 3) = Ascii["K"]

detectBottomLineClear(data) ==
    \/ \E i \in 0..(Len(data) - 6) : PositionThenErase(data, i)
    \/ Contains(data, Esc(<<"[", "0", "J">>))
    \/ Contains(data, Esc(<<"[", "J">>))

\* titlePattern at position s: ESC ] (0|1|2) ; title (BEL | ESC \).  The
\* title has no BEL and no ESC, so it ends at the first of them.  The value
\* is the position after the match, or -1.
titleEnd(data, s) ==
    IF /\ s + 4 < Len(data)
       /\ At(data, s) = ESC
       /\ At(data, s + 1) = Ascii["]"]
       /\ At(data, s + 2) \in {Ascii["0"], Ascii["1"], Ascii["2"]}
       /\ At(data, s + 3) = Ascii[";"]
    THEN LET stops == { e \in (s + 4)..(Len(data) - 1) :
                          At(data, e) \in {BEL, ESC} }
         IN IF stops = {} THEN -1
            ELSE IF At(data, Least(stops)) = BEL THEN Least(stops) + 1
            ELSE IF /\ Least(stops) + 1 < Len(data)
                    /\ At(data, Least(stops) + 1) = Ascii["\\"]
                 THEN Least(stops) + 2
            ELSE -1
    ELSE -1

\* The submatch of the match at s that ends before e.
titleOf(data, s, e) ==
    SubSeq(data, s + 5, IF At(data, e - 1) = BEL THEN e - 1 ELSE e - 2)

\* titlePattern.FindAllSubmatch(data, -1) from position p on: the titles of
\* the successive leftmost matches, which do not overlap.
RECURSIVE titleMatches(_, _)
titleMatches(data, p) ==
    LET starts == { s \in p..(Len(data) - 1) : titleEnd(data, s) # -1 }
    IN IF starts = {} THEN <<>>
       ELSE <<titleOf(data, Least(starts),
                      titleEnd(data, Least(starts)))>>
            \o titleMatches(data, titleEnd(data, Least(starts)))

\* The callbacks of the ScreenEventHandler.
ScreenClear == [kind |-> "HandleScreenClear", title |-> <<>>]

FocusIn == [kind |-> "HandleFocusIn", title |-> <<>>]

FocusOut == [kind |-> "HandleFocusOut", title |-> <<>>]

TitleChange(title) == [kind |-> "HandleTitleChange", title |-> title]

\* Faulty variant: only the new chunk is searched.
AppendedChunkOnly(buf, data) == data

\* t.buffer = append(t.buffer, data...)
Appended(buf, data) == buf \o data

foundClear(b) ==
    IF ContainsAny(b, screenClearSequences) THEN TRUE
    ELSE IF ContainsAny(b, statusInterferingSequences) THEN TRUE
    ELSE detectBottomLineClear(b)

\* The sequences of the two lists that b contains.
ClearMatches(b) ==
    { q \in Range(screenClearSequences) \cup Range(statusInterferingSequences) :
        Contains(b, q) }

\* Faulty variant: one HandleScreenClear call for each sequence found.
ScreenClearCallsPerMatch(b) ==
    [i \in 1..(Cardinality(ClearMatches(b))
                + IF detectBottomLineClear(b) THEN 1 ELSE 0) |-> ScreenClear]

\* if foundClear { handler.HandleScreenClear() }
ScreenClearCalls(b) == IF foundClear(b) THEN <<ScreenClear>> ELSE <<>>

FocusCalls(b) ==
    (IF Contains(b, focusInSequence) THEN <<FocusIn>> ELSE <<>>)
    \o (IF Contains(b, focusOutSequence) THEN <<FocusOut>> ELSE <<>>)

\* Faulty variant: the first match is reported.
TitleCallsFirst(b) ==
    LET matches == titleMatches(b, 0)
    IN IF matches = <<>> THEN <<>>
       ELSE <<TitleChange(matches[1])>>

\* The last match is reported.
TitleCalls(b) ==
    LET matches == titleMatches(b, 0)
    IN IF matches = <<>> THEN <<>>
       ELSE <<TitleChange(matches[Len(matches)])>>

\* All callbacks of one call on the buffer b, in the order of the code.
Callbacks(b) == ScreenClearCalls(b) \o FocusCalls(b) \o TitleCalls(b)

\* Faulty variant: the first maxBufferSize bytes are kept.
TrimmedKeepsHead(b) ==
    IF Len(b) > maxBufferSize THEN SubSeq(b, 1, maxBufferSize) ELSE b

\* if len(t.buffer) > maxBufferSize { keep the last maxBufferSize bytes }
Trimmed(b) ==
    IF Len(b) > maxBufferSize
    THEN SubSeq(b, Len(b) - maxBufferSize + 1, Len(b))
    ELSE b

\* Faulty variant: the handler is not tested before the buffer is written.
DetectSequencesAppendsFirst(data, handler) ==
    /\ buffer' = Trimmed(Appended(buffer, data))
    /\ seen' = [seen EXCEPT
                  !.calls = @ + 1,
                  !.last = IF handler THEN Callbacks(Appended(buffer, data))
                           ELSE <<>>,
                  !.fired = IF handler
                            THEN @ \o Callbacks(Appended(buffer, data))
                            ELSE @]

\* DetectSequences(data, handler): nothing with a nil handler; otherwise
\* append, search the whole buffer, call back, trim.
DetectSequences(data, handler) ==
    IF handler
    THEN /\ buffer' = Trimmed(Appended(buffer, data))
         /\ seen' = [seen EXCEPT
                       !.calls = @ + 1,
                       !.last = Callbacks(Appended(buffer, data)),
                       !.fired = @ \o Callbacks(Appended(buffer, data))]
    ELSE /\ buffer' = buffer
         /\ seen' = [seen EXCEPT !.calls = @ + 1, !.last = <<>>]

\* ----------------------------------------------------- visible content
\* 0x9B, the 8-bit CSI
CSI8 == 155

\* c >= 0x40 && c <= 0x7E
FinalBytes == 64..126

\* The first position from i on that holds a byte of S, or len(data).
FirstIn(data, i, S) ==
    LET hits == { j \in i..(Len(data) - 1) : At(data, j) \in S }
    IN IF hits = {} THEN Len(data) ELSE Least(hits)

\* for i < len(data) { c := data[i]; i++; if c is a final byte { break } }
skipCSI(data, i) ==
    IF FirstIn(data, i, FinalBytes) = Len(data)
    THEN Len(data)
    ELSE FirstIn(data, i, FinalBytes) + 1

\* The OSC loop: stop after BEL, or after ESC \ .
skipOSC(data, i) ==
    LET stops == { j \in i..(Len(data) - 1) :
                     \/ At(data, j) = BEL
                     \/ /\ At(data, j) = ESC
                        /\ j + 1 < Len(data)
                        /\ At(data, j + 1) = Ascii["\\"] }
    IN IF stops = {} THEN Len(data)
       ELSE IF At(data, Least(stops)) = BEL THEN Least(stops) + 1
       ELSE Least(stops) + 2

\* b == '\n' || b == '\r' || b == '\t', b >= 32 && b <= 126, b >= 128
visibleByte(b) == b \in {10, 13, 9} \/ (b >= 32 /\ b <= 126) \/ b >= 128

\* The loop of containsVisibleContent from position i on.  An ESC that
\* begins none of the three sequences is tested as a byte with i already
\* moved to the byte after it, and the final i++ then passes that byte too.
RECURSIVE visibleFrom(_, _)
visibleFrom(data, i) ==
    IF i >= Len(data) THEN FALSE
    ELSE IF At(data, i) = ESC
    THEN IF i + 1 < Len(data) /\ At(data, i + 1) = Ascii["["]
         THEN visibleFrom(data, skipCSI(data, i + 2))
         ELSE IF i + 1 < Len(data) /\ At(data, i + 1) = Ascii["]"]
         THEN visibleFrom(data, skipOSC(data, i + 2))
         ELSE IF i + 1 < Len(data)
                 /\ At(data, i + 1) \in {Ascii["("], Ascii[")"]}
         THEN visibleFrom(data, IF i + 2 < Len(data) THEN i + 3 ELSE i + 2)
         ELSE visibleFrom(data, i + 2)
    ELSE IF At(data, i) = CSI8
    THEN visibleFrom(data, skipCSI(data, i + 1))
    ELSE IF visibleByte(At(data, i)) THEN TRUE
    ELSE visibleFrom(data, i + 1)

containsVisibleContent(data) == visibleFrom(data, 0)

\* ------------------------------------------------- the detector's inputs
\* OSC 0, 1 and 2 with a short title, ended by BEL or by ESC \.
TitleSequences ==
    { Esc(<<"]", n, ";">>) \o A(t) \o e :
        n \in {"0", "1", "2"},
        t \in {<<>>, <<"a">>, <<"a", "b">>},
        e \in {<<BEL>>, Esc(<<"\\">>)} }

\* Every sequence the detector recognizes, alone.
Recognized ==
    Range(screenClearSequences) \cup Range(statusInterferingSequences)
    \cup {focusInSequence, focusOutSequence} \cup TitleSequences

\* Streams that hold several sequences.
Several ==
    { Esc(<<"[", "2", "J">>) \o Esc(<<"[", "3", "J">>),
      Esc(<<"[", "2", "J">>) \o Esc(<<"[", "r">>) \o Esc(<<"c">>),
      Esc(<<"[", "5", ";", "1", "H">>) \o Esc(<<"[", "K">>),
      Esc(<<"[", "H">>) \o Esc(<<"[", "2", "K">>) \o Esc(<<"[", "J">>),
      Esc(<<"[", "I">>) \o Esc(<<"[", "O">>) \o Esc(<<"[", "2", "J">>),
      A(<<"a", "b">>) \o Esc(<<"[", "3", "1", "m">>) \o A(<<"x">>),
      Esc(<<"]", "0", ";", "a">>) \o <<BEL>>
        \o Esc(<<"]", "2", ";", "b">>) \o <<BEL>>,
      Esc(<<"[", "I">>) \o Esc(<<"[", "I">>) \o Esc(<<"[", "O">>) }

Filler(n) == [i \in 1..n |-> Ascii["x"]]

\* More than maxBufferSize bytes of text, then a clear sequence.
Long ==
    { Filler(2 * FillerChunk) \o Esc(<<"[", "2", "J">>),
      Filler(2 * FillerChunk) \o Esc(<<"c">>) }

Outputs ==
    { Output("single", d, TRUE) : d \in Recognized }
    \cup { Output("several", d, TRUE) : d \in Several }
    \cup { Output("long", d, TRUE) : d \in Long }
    \cup { Output("single", d, FALSE) : d \in {Esc(<<"[", "2", "J">>)} }

\* The lengths of the next chunk.
ChunkLens(rest) ==
    IF Len(rest) > MaxSplit THEN {FillerChunk} ELSE 1..Len(rest)

Drop(d, n) == SubSeq(d, n + 1, Len(d))

\* The child writes the next n bytes of its output and the detector is
\* called on them.
DetectorWrite(n) ==
    /\ DetectSequences(SubSeq(out.rest, 1, n), out.handler)
    /\ out' = [out EXCEPT !.rest = Drop(@, n),
                          !.fed = @ \o SubSeq(out.rest, 1, n)]
    /\ UNCHANGED <<engineVars, lineBuffer, terminalState, proc, locks>>

DetectorInit ==
    /\ NewBackstopNotifier(0, FreeCaller)
    /\ NewOutputMonitor
    /\ proc = NewPTYManager
    /\ locks = NoLocks
    /\ out \in Outputs

DetectorNext == \E n \in ChunkLens(out.rest) : DetectorWrite(n)

DetectorSpec == DetectorInit /\ [][DetectorNext]_vars

\* --------------------------------------------- what a chunk is made up of
\* A chunk read as a terminal reads it (ECMA-48), token by token:
\*   "csi"      ESC [ parameters intermediates final
\*   "csi8"     0x9B parameters intermediates final
\*   "osc"      ESC ] text (BEL | ESC \)
\*   "charset"  ESC ( F  or  ESC ) F
\*   "escape"   ESC F, another two-byte escape sequence
\*   "partial"  a sequence that the end of the chunk cuts short
\*   "broken"   a sequence with a byte that cannot be part of it
\*   "control"  a control byte, an ESC that begins no sequence included
\*   "visible"  any other byte
ParameterBytes == 48..63

IntermediateBytes == 32..47

ControlBytes == ((0..31) \ {9, 10, 13}) \cup {127}

\* The token that a control sequence body beginning at q makes.
ControlSequence(data, q, kind) ==
    LET e == FirstIn(data, FirstIn(data, q, (0..255) \ ParameterBytes),
                     (0..255) \ IntermediateBytes)
    IN IF e = Len(data) THEN [kind |-> "partial", next |-> e]
       ELSE IF At(data, e) \in FinalBytes THEN [kind |-> kind, next |-> e + 1]
       ELSE [kind |-> "broken", next |-> e + 1]

\* The token that an OSC body beginning at q makes.
CommandString(data, q) ==
    LET e == FirstIn(data, q, (0..31) \cup {127})
    IN IF e = Len(data) THEN [kind |-> "partial", next |-> e]
       ELSE IF At(data, e) = BEL THEN [kind |-> "osc", next |-> e + 1]
       ELSE IF At(data, e) = ESC /\ e + 1 = Len(data)
       THEN [kind |-> "partial", next |-> e + 1]
       ELSE IF At(data, e) = ESC /\ At(data, e + 1) = Ascii["\\"]
       THEN [kind |-> "osc", next |-> e + 2]
       ELSE [kind |-> "broken", next |-> e + 1]

\* The token at position i < len(data).
Token(data, i) ==
    IF At(data, i) = ESC /\ i + 1 < Len(data)
    THEN IF At(data, i + 1) = Ascii["["]
         THEN ControlSequence(data, i + 2, "csi")
         ELSE IF At(data, i + 1) = Ascii["]"]
         THEN CommandString(data, i + 2)
         ELSE IF At(data, i + 1) \in {Ascii["("], Ascii[")"]}
         THEN IF i + 2 = Len(data) THEN [kind |-> "partial", next |-> i + 2]
              ELSE IF At(data, i + 2) \in 48..126
              THEN [kind |-> "charset", next |-> i + 3]
              ELSE [kind |-> "broken", next |-> i + 3]
         ELSE IF At(data, i + 1) \in 48..126
         THEN [kind |-> "escape", next |-> i + 2]
         ELSE IF At(data, i + 1) \in IntermediateBytes
         THEN [kind |-> "broken", next |-> i + 2]
         ELSE [kind |-> "control", next |-> i + 1]
    ELSE IF At(data, i) = CSI8 THEN ControlSequence(data, i + 1, "csi8")
    ELSE IF At(data, i) \in ControlBytes THEN [kind |-> "control", next |-> i + 1]
    ELSE [kind |-> "visible", next |-> i + 1]

\* The kinds of the tokens of data from position i on.
RECURSIVE Kinds(_, _)
Kinds(data, i) ==
    IF i >= Len(data) THEN {}
    ELSE {Token(data, i).kind} \cup Kinds(data, Token(data, i).next)

\* Only recognized sequences and control bytes.
EscapeOnly(data) ==
    Kinds(data, 0) \subseteq {"csi", "csi8", "osc", "charset", "control"}

\* A visible byte outside the sequences, all of them well formed.
VisibleOutside(data) ==
    "visible" \in Kinds(data, 0) /\ "broken" \notin Kinds(data, 0)

\* ------------------------------------------------ the classifier's inputs
\* One byte of each sort that containsVisibleContent tells apart (with 1 a
\* parameter byte and m a final byte of a control sequence).
Alphabet ==
    { ESC, BEL, CSI8, 1, 10, Ascii["["], Ascii["]"], Ascii["("],
      Ascii["\\"], Ascii["1"], Ascii["m"] }

Chunks == UNION { [1..n -> Alphabet] : n \in 0..MaxData }

\* containsVisibleContent is applied to the chunk.
Classify ==
    /\ out.kind = "chunk"
    /\ out.rest # <<>>
    /\ out' = [out EXCEPT !.rest = <<>>, !.fed = out.rest,
                          !.visible = containsVisibleContent(out.rest)]
    /\ UNCHANGED <<engineVars, buffer, lineBuffer, terminalState, seen, proc,
                   locks>>

ClassifierInit ==
    /\ NewBackstopNotifier(0, FreeCaller)
    /\ NewOutputMonitor
    /\ proc = NewPTYManager
    /\ locks = NoLocks
    /\ out \in { Output("chunk", d, TRUE) : d \in Chunks }

ClassifierSpec == ClassifierInit /\ [][Classify]_vars

\* ----------------------------------------------------- the output monitor
\* TerminalState.SetTitle
SetTitle(ts, title) == [ts EXCEPT !.title = title]

\* Faulty variant: the time is recorded on every call.
SetFocusedAlwaysStamps(ts, focused) ==
    [ts EXCEPT !.focused = focused, !.lastFocusChange = now]

\* TerminalState.SetFocused: the time is recorded when the value changes.
SetFocused(ts, focused) ==
    IF ts.focused # focused
    THEN [ts EXCEPT !.focused = focused, !.lastFocusChange = now]
    ELSE ts

\* HandleTitleChange, HandleFocusIn and HandleFocusOut act on the terminal
\* state; HandleScreenClear does not.
Handle(ts, callback) ==
    IF callback.kind = "HandleTitleChange" THEN SetTitle(ts, callback.title)
    ELSE IF callback.kind = "HandleFocusIn" THEN SetFocused(ts, TRUE)
    ELSE IF callback.kind = "HandleFocusOut" THEN SetFocused(ts, FALSE)
    ELSE ts

RECURSIVE HandleAll(_, _)
HandleAll(ts, callbacks) ==
    IF callbacks = <<>> THEN ts
    ELSE HandleAll(Handle(ts, Head(callbacks)), Tail(callbacks))

\* The positions of the newlines of b.
Newlines(b) == { i \in 1..Len(b) : b[i] = 10 }

Greatest(S) == CHOOSE x \in S : \A y \in S : x >= y

\* The line that the newline at position i ends.
LineBefore(b, i) ==
    LET before == { j \in Newlines(b) : j < i }
    IN SubSeq(b, IF before = {} THEN 1 ELSE Greatest(before) + 1, i - 1)

\* processLine finds a bell in the line: bytes.Contains(line, []byte{0x07})
HasBell(line) == \E j \in 1..Len(line) : line[j] = BEL

\* Faulty variant: the incomplete line is not kept.
RemainderDropped(b) == <<>>

\* The incomplete line that is kept.
Remainder(b) ==
    IF Newlines(b) = {} THEN b ELSE Drop(b, Greatest(Newlines(b)))

\* n calls of op, as HandleData queues them.
Calls(n, op) == [i \in 1..n |-> [at |-> env.end, op |-> op]]

\* Faulty variant: the bell scan comes before MarkActivity.
EngineCallsBellFirst(data) ==
    Calls(Len(SelectSeq(Callbacks(Appended(buffer, data)),
                        LAMBDA c : c = ScreenClear)), "ResetSession")
    \o Calls(Cardinality({ i \in Newlines(lineBuffer \o data) :
                             HasBell(LineBefore(lineBuffer \o data, i)) }),
             "SetBackstopSent")
    \o Calls(IF containsVisibleContent(data) THEN 1 ELSE 0, "MarkActivity")

\* The engine calls of one HandleData call, in order: ResetSession from
\* HandleScreenClear inside DetectSequences, MarkActivity when the chunk has
\* visible content, SetBackstopSent(true) for every complete line with a
\* bell.
EngineCalls(data) ==
    Calls(Len(SelectSeq(Callbacks(Appended(buffer, data)),
                        LAMBDA c : c = ScreenClear)), "ResetSession")
    \o Calls(IF containsVisibleContent(data) THEN 1 ELSE 0, "MarkActivity")
    \o Calls(Cardinality({ i \in Newlines(lineBuffer \o data) :
                             HasBell(LineBefore(lineBuffer \o data, i)) }),
             "SetBackstopSent")

\* HandleData(data) on the next n bytes of the child's output, once the
\* calls of the previous HandleData have been made.
HandleData(n) ==
    /\ env.name = "monitor"
    /\ env.steps = <<>>
    /\ DetectSequences(SubSeq(out.rest, 1, n), out.handler)
    /\ terminalState' =
         HandleAll(terminalState,
                   Callbacks(Appended(buffer, SubSeq(out.rest, 1, n))))
    /\ lineBuffer' = Remainder(lineBuffer \o SubSeq(out.rest, 1, n))
    /\ env' = [env EXCEPT !.steps = EngineCalls(SubSeq(out.rest, 1, n))]
    /\ out' = [out EXCEPT
                 !.rest = Drop(@, n),
                 !.fed = @ \o SubSeq(out.rest, 1, n),
                 !.visible = containsVisibleContent(SubSeq(out.rest, 1, n)),
                 !.lines = @ \o SubSeq(out.rest, 1, n),
                 !.bells = @ + Len(SelectSeq(
                                 EngineCalls(SubSeq(out.rest, 1, n)),
                                 LAMBDA c : c.op = "SetBackstopSent")),
                 !.rang = \E c \in Range(EngineCalls(SubSeq(out.rest, 1, n))) :
                            c.op = "SetBackstopSent"]
    /\ obs' = [obs EXCEPT !.lastOp = "HandleData"]
    /\ UNCHANGED <<timeout, flags, timer, armed, pending, mu, running, now,
                   proc, locks>>

\* Flush, once the calls of the previous HandleData have been made: a
\* buffered partial line goes through processLine and the buffer is reset.
Flush ==
    /\ env.name = "monitor"
    /\ env.steps = <<>>
    /\ out.flushes < MaxFlushes
    /\ Len(lineBuffer) > 0
    /\ lineBuffer' = <<>>
    /\ env' = [env EXCEPT
                 !.steps = Calls(IF HasBell(lineBuffer) THEN 1 ELSE 0,
                                 "SetBackstopSent")]
    /\ out' = [out EXCEPT
                 !.lines = @ \o <<10>>,
                 !.bells = @ + (IF HasBell(lineBuffer) THEN 1 ELSE 0),
                 !.flushes = @ + 1]
    /\ obs' = [obs EXCEPT !.lastOp = "Flush"]
    /\ UNCHANGED <<timeout, flags, timer, armed, pending, mu, running, now,
                   buffer, terminalState, seen, proc, locks>>

\* The output path alone: the calls of the engine are those of HandleData.
MonitorCaller ==
    [free |-> FALSE, quiet |-> FALSE, name |-> "monitor", steps |-> <<>>,
     end |-> MaxTime]

\* Style and cursor-movement sequences only.
StyleOutputs ==
    { Esc(<<"[", "3", "1", "m">>),
      Esc(<<"[", "A">>) \o Esc(<<"[", "B">>) }

\* Text with a bell in a complete line, a screen clear, a title and focus
\* changes.
OtherOutputs ==
    { A(<<"a">>) \o <<BEL, 10, BEL>>,
      Esc(<<"c">>) \o A(<<"a">>) \o <<10>>,
      Esc(<<"]", "0", ";", "a">>) \o <<BEL>>,
      Esc(<<"[", "O">>) \o Esc(<<"[", "I">>) }

MonitorInit ==
    /\ NewBackstopNotifier(Timeout, MonitorCaller)
    /\ NewOutputMonitor
    /\ proc = NewPTYManager
    /\ locks = NoLocks
    /\ out \in { Output("style", d, TRUE) : d \in StyleOutputs }
               \cup { Output("other", d, TRUE) : d \in OtherOutputs }

Write == \E n \in ChunkLens(out.rest) : HandleData(n)

MonitorNext ==
    \/ Write
    \/ Flush
    \/ ResetSession
    \/ MarkActivity
    \/ Bell
    \/ Fire
    \/ Callback
    \/ DeliveryReturn
    \/ Tick

MonitorSpec == MonitorInit /\ [][MonitorNext]_vars

\* ------------------------------------------------------ the terminal state
\* The handler callbacks on the terminal state, called at any time and in
\* any order.
Titles == { A(<<"a">>), A(<<"b">>) }

Handled(callback, op) ==
    /\ terminalState' = Handle(terminalState, callback)
    /\ seen' = [seen EXCEPT !.last = <<callback>>]
    /\ obs' = [obs EXCEPT !.lastOp = op]
    /\ UNCHANGED <<timeout, flags, timer, armed, pending, mu, running, now,
                   env, buffer, lineBuffer, out, proc, locks>>

HandleFocusIn == Handled(FocusIn, "HandleFocusIn")

HandleFocusOut == Handled(FocusOut, "HandleFocusOut")

HandleTitleChange == \E title \in Titles : Handled(TitleChange(title), "HandleTitleChange")

TerminalInit == NewBackstopNotifier(0, FreeCaller) /\ MonitorIdle

TerminalNext ==
    \/ HandleFocusIn
    \/ HandleFocusOut
    \/ HandleTitleChange
    \/ Tick

TerminalSpec == TerminalInit /\ [][TerminalNext]_vars

\* ------------------------------------------------------ the PTY manager
\* Faulty variant: Start does not look at p.cmd.
StartedAgain(p, created, sized) ==
    IF ~created
    THEN [p EXCEPT !.cmd = TRUE, !.pty = "nil", !.err = "failed to start PTY"]
    ELSE [p EXCEPT !.cmd = TRUE, !.pty = "open", !.child = "running",
                   !.children = @ + 1, !.logged = @ \/ ~sized,
                   !.watcher = "running", !.err = "nil"]

\* PTYManager.Start, where pty.Start succeeds iff created and
\* copyTerminalSize iff sized.
Started(p, created, sized) ==
    IF p.cmd
    THEN [p EXCEPT !.err = "process already started"]
    ELSE IF ~created
    THEN [p EXCEPT !.cmd = TRUE, !.pty = "nil", !.err = "failed to start PTY"]
    ELSE [p EXCEPT !.cmd = TRUE, !.pty = "open", !.child = "running",
                   !.children = @ + 1, !.logged = @ \/ ~sized,
                   !.watcher = "running", !.err = "nil"]

Start ==
    /\ proc.starts < MaxStarts
    /\ \E created, sized \in BOOLEAN :
         proc' = [Started(proc, created, sized) EXCEPT
                    !.starts = @ + 1, !.given = <<created, sized>>,
                    !.last = "Start"]
    /\ UNCHANGED <<engineVars, buffer, lineBuffer, terminalState, out, seen,
                   locks>>

\* The child exits: cmd.Wait can return.
ChildExit ==
    /\ proc.child = "running"
    /\ proc' = [proc EXCEPT !.child = "exited", !.last = "ChildExit"]
    /\ UNCHANGED <<engineVars, buffer, lineBuffer, terminalState, out, seen,
                   locks>>

\* monitorTerminalSize takes a SIGWINCH: copyTerminalSize, a failure logged.
Resize ==
    /\ proc.watcher = "running"
    /\ \E sized \in BOOLEAN :
         proc' = [proc EXCEPT !.logged = @ \/ ~sized, !.last = "Resize"]
    /\ UNCHANGED <<engineVars, buffer, lineBuffer, terminalState, out, seen,
                   locks>>

\* monitorTerminalSize takes the closed stopChan and returns.
WatcherReturn ==
    /\ proc.watcher = "running"
    /\ proc.stopChan = "closed"
    /\ proc' = [proc EXCEPT !.watcher = "returned", !.last = "WatcherReturn"]
    /\ UNCHANGED <<engineVars, buffer, lineBuffer, terminalState, out, seen,
                   locks>>

\* Faulty variant: the restore function is called and kept.
RestoredKeepsFunc(p) ==
    IF p.restoreFunc
    THEN [p EXCEPT !.mode = "original", !.restored = @ + 1]
    ELSE p

\* if p.restoreFunc != nil { p.restoreFunc(); p.restoreFunc = nil }, under
\* p.mu, in Stop and in the deferred function of CopyIO.
Restored(p) ==
    IF p.restoreFunc
    THEN [p EXCEPT !.mode = "original", !.restored = @ + 1,
                   !.restoreFunc = FALSE]
    ELSE p

\* PTYManager.Stop
Stop ==
    /\ proc.stops < MaxStops
    /\ proc' = [Restored(proc) EXCEPT !.stops = @ + 1, !.err = "nil",
                                      !.last = "Stop"]
    /\ UNCHANGED <<engineVars, buffer, lineBuffer, terminalState, out, seen,
                   locks>>

\* CopyIO up to setRawMode: it returns an error without a PTY; raw is
\* whether stdin is a file that setRawMode could switch.
CopyIO ==
    /\ proc.copyIO = "none"
    /\ \E raw \in BOOLEAN :
         proc' = IF proc.pty = "nil"
                 THEN [proc EXCEPT !.copyIO = "returned",
                                   !.copyErr = "PTY not initialized",
                                   !.last = "CopyIO"]
                 ELSE IF raw
                 THEN [proc EXCEPT !.copyIO = "setRawMode", !.mode = "raw",
                                   !.acquired = @ + 1, !.last = "CopyIO"]
                 ELSE [proc EXCEPT !.copyIO = "copying",
                                   !.input = "copying", !.output = "copying",
                                   !.last = "CopyIO"]
    /\ UNCHANGED <<engineVars, buffer, lineBuffer, terminalState, out, seen,
                   locks>>

\* CopyIO stores the restore function under p.mu, defers the restoration
\* and starts the two copy loops.
CopyIOStore ==
    /\ proc.copyIO = "setRawMode"
    /\ proc' = [proc EXCEPT !.restoreFunc = TRUE, !.copyIO = "copying",
                            !.input = "copying", !.output = "copying",
                            !.last = "CopyIOStore"]
    /\ UNCHANGED <<engineVars, buffer, lineBuffer, terminalState, out, seen,
                   locks>>

\* A copy loop ends: io.Copy returns nil at EOF, or an error that is sent
\* on errChan.
LoopEnds(p, loop, ok) ==
    [p EXCEPT ![loop] = "ended",
              !.errChan = IF ok THEN @ ELSE Append(@, loop),
              !.failed = IF ok THEN @ ELSE Append(@, loop),
              !.last = loop]

InputEnds ==
    /\ proc.input = "copying"
    /\ \E ok \in BOOLEAN : proc' = LoopEnds(proc, "input", ok)
    /\ UNCHANGED <<engineVars, buffer, lineBuffer, terminalState, out, seen,
                   locks>>

OutputEnds ==
    /\ proc.output = "copying"
    /\ \E ok \in BOOLEAN : proc' = LoopEnds(proc, "output", ok)
    /\ UNCHANGED <<engineVars, buffer, lineBuffer, terminalState, out, seen,
                   locks>>

\* Faulty variant: a failure of one loop ends the wait.
WaitGroupDoneOrFailed(p) ==
    \/ p.input = "ended" /\ p.output = "ended"
    \/ p.errChan # <<>>

\* wg.Wait() of CopyIO returns: both loops have called wg.Done.
WaitGroupDone(p) == p.input = "ended" /\ p.output = "ended"

\* CopyIO after wg.Wait: the select takes the first error of errChan, or
\* nil; then the deferred restoration is due, if one was deferred.
CopyIOSelect ==
    /\ proc.copyIO = "copying"
    /\ WaitGroupDone(proc)
    /\ proc' = [proc EXCEPT
                  !.copyErr = IF proc.errChan = <<>> THEN "nil"
                              ELSE Head(proc.errChan),
                  !.errChan = IF proc.errChan = <<>> THEN <<>> ELSE Tail(@),
                  !.copyIO = IF proc.acquired > 0 THEN "deferred"
                             ELSE "returned",
                  !.last = "CopyIOSelect"]
    /\ UNCHANGED <<engineVars, buffer, lineBuffer, terminalState, out, seen,
                   locks>>

\* The deferred function of CopyIO runs and CopyIO returns.
CopyIOReturn ==
    /\ proc.copyIO = "deferred"
    /\ proc' = [Restored(proc) EXCEPT !.copyIO = "returned",
                                      !.last = "CopyIOReturn"]
    /\ UNCHANGED <<engineVars, buffer, lineBuffer, terminalState, out, seen,
                   locks>>

\* PTYManager.Wait up to cmd.Wait: an error when nothing was started.
Wait ==
    /\ proc.wait = "none"
    /\ proc' = IF ~proc.cmd
               THEN [proc EXCEPT !.wait = "returned",
                                 !.err = "process not started",
                                 !.last = "Wait"]
               ELSE [proc EXCEPT !.wait = "cmd.Wait", !.last = "Wait"]
    /\ UNCHANGED <<engineVars, buffer, lineBuffer, terminalState, out, seen,
                   locks>>

\* cmd.Wait returns, with an error if no child was created, and Wait
\* closes stopChan.
WaitCloseStopChan ==
    /\ proc.wait = "cmd.Wait"
    /\ proc.child # "running"
    /\ proc' = [proc EXCEPT !.wait = "wg.Wait", !.stopChan = "closed",
                            !.err = IF proc.child = "none" THEN "not started"
                                    ELSE "nil",
                            !.last = "WaitCloseStopChan"]
    /\ UNCHANGED <<engineVars, buffer, lineBuffer, terminalState, out, seen,
                   locks>>

\* p.wg.Wait returns, p.wg counting monitorTerminalSize only; Wait closes
\* the PTY and returns.
WaitReturn ==
    /\ proc.wait = "wg.Wait"
    /\ proc.watcher # "running"
    /\ proc' = [proc EXCEPT !.wait = "returned",
                            !.pty = IF @ = "nil" THEN @ ELSE "closed",
                            !.last = "WaitReturn"]
    /\ UNCHANGED <<engineVars, buffer, lineBuffer, terminalState, out, seen,
                   locks>>

\* Manager.Wait after ptyManager.Wait has returned: ptyManager.Stop.
ManagerWaitReturn ==
    /\ proc.wait = "returned"
    /\ proc.managerWait = "none"
    /\ proc' = [Restored(proc) EXCEPT !.managerWait = "returned",
                                      !.last = "ManagerWaitReturn"]
    /\ UNCHANGED <<engineVars, buffer, lineBuffer, terminalState, out, seen,
                   locks>>

PTYInit == NewBackstopNotifier(0, FreeCaller) /\ MonitorIdle

PTYNext ==
    \/ Start
    \/ ChildExit
    \/ Resize
    \/ WatcherReturn
    \/ Stop
    \/ CopyIO
    \/ CopyIOStore
    \/ InputEnds
    \/ OutputEnds
    \/ CopyIOSelect
    \/ CopyIOReturn
    \/ Wait
    \/ WaitCloseStopChan
    \/ WaitReturn
    \/ ManagerWaitReturn

PTYSpec == PTYInit /\ [][PTYNext]_vars

\* ------------------------------------------------------------- the locks
\* mu.Lock(); defer mu.Unlock() around the steps inner.
Section(m, inner) ==
    <<[op |-> "Lock", mu |-> m]>> \o inner \o <<[op |-> "Unlock", mu |-> m]>>

\* Faulty variant: the title is read under the monitor's lock.
terminalInfoLocksMonitor == Section("om.mu", Section("ts.mu", <<>>))

\* The terminalInfo function of the context notifier:
\* outputMonitor.GetTerminalTitle, which takes ts.mu in GetTitle.
terminalInfo == Section("ts.mu", <<>>)

\* MarkActivity, SetBackstopSent, ResetSession, DisableBackstopTimer, and
\* a callback that returns at its checks: bn.mu, nothing called under it.
EngineCall == Section("bn.mu", <<>>)

\* Send, and a callback that delivers: bn.mu held across
\* ContextNotifier.Send, which calls terminalInfo.
Delivery == Section("bn.mu", terminalInfo)

\* HandleData: the detector's callbacks before om.mu is taken (ResetSession
\* on a clear; SetTitle or SetFocused on a title or focus sequence), then
\* MarkActivity and SetBackstopSent under om.mu.
HandleDataLocks(clear, state, visible, bell) ==
    (IF clear THEN EngineCall ELSE <<>>)
    \o (IF state THEN Section("ts.mu", <<>>) ELSE <<>>)
    \o Section("om.mu", (IF visible THEN EngineCall ELSE <<>>)
                        \o (IF bell THEN EngineCall ELSE <<>>))

\* What each goroutine can call.
Programs(g) ==
    IF g = "output"
    THEN { HandleDataLocks(c, s, v, b) : c, s, v, b \in BOOLEAN }
    ELSE IF g = "input" THEN {EngineCall}
    ELSE IF g = "timer" THEN {EngineCall, Delivery}
    ELSE {Delivery}

\* A goroutine begins a call.
Enter(g) ==
    /\ locks.todo[g] = <<>>
    /\ \E program \in Programs(g) :
         locks' = [locks EXCEPT !.todo[g] = program]
    /\ UNCHANGED <<engineVars, buffer, lineBuffer, terminalState, out, seen,
                   proc>>

\* mu.Lock(): the goroutine goes on when the mutex is free.
Lock(g) ==
    /\ locks.todo[g] # <<>>
    /\ Head(locks.todo[g]).op = "Lock"
    /\ locks.owner[Head(locks.todo[g]).mu] = "none"
    /\ locks' = [locks EXCEPT !.owner[Head(locks.todo[g]).mu] = g,
                              !.todo[g] = Tail(@)]
    /\ UNCHANGED <<engineVars, buffer, lineBuffer, terminalState, out, seen,
                   proc>>

\* mu.Unlock()
Unlock(g) ==
    /\ locks.todo[g] # <<>>
    /\ Head(locks.todo[g]).op = "Unlock"
    /\ locks' = [locks EXCEPT !.owner[Head(locks.todo[g]).mu] = "none",
                              !.todo[g] = Tail(@)]
    /\ UNCHANGED <<engineVars, buffer, lineBuffer, terminalState, out, seen,
                   proc>>

LockInit == NewBackstopNotifier(Timeout, FreeCaller) /\ MonitorIdle

LockNext == \E g \in Goroutines : Enter(g) \/ Lock(g) \/ Unlock(g)

LockSpec == LockInit /\ [][LockNext]_vars

\* ---------------------------------------------------------------- claims
\* The step makes one backstop delivery call.
Delivers == obs'.delivered = obs.delivered + 1

\* C1: in every interleaving, a backstop notification is delivered only
\* when none has been delivered since the last DisableBackstopTimer or
\* ResetSession (or since construction): at most one per interaction window.
C1_AtMostOnePerWindow == [][Delivers => ~obs.windowDelivered]_vars

\* A callback ran in a window that already had its notification, after
\* an activity had cleared backstopSent, and delivered nothing.
C1_Witness ==
    /\ obs.windowDelivered
    /\ obs.lastOp = "sendBackstopNotification"
    /\ mu = "free"
    /\ ~backstopSent
    /\ ~backstopDisabled

\* C2 (as stated): a backstop notification is delivered only when none has
\* been delivered since the last DisableBackstopTimer (or construction),
\* whatever else happened in between.
C2_AtMostOnePerInteraction ==
    [][Delivers => ~obs.interactionDelivered]_vars

\* C2 (amended): a second backstop notification since the last
\* DisableBackstopTimer is delivered only when a ResetSession has occurred
\* since that DisableBackstopTimer.
C2_AtMostOnePerInteractionUnlessReset ==
    [][Delivers /\ obs.interactionDelivered => obs.interactionReset]_vars

\* A callback ran after a delivery with neither keypress nor reset since,
\* and delivered nothing although backstopSent had been cleared.
C2_Witness ==
    /\ obs.interactionDelivered
    /\ ~obs.interactionReset
    /\ obs.lastOp = "sendBackstopNotification"
    /\ mu = "free"
    /\ ~backstopSent
    /\ ~backstopDisabled
    /\ obs.delivered = 1

\* C3: with timeout T > 0 and no call after construction, exactly one
\* backstop notification is delivered: one is eventually delivered, not
\* before T and by the timer armed at construction, and never a second.
C3_IdleDeliversExactlyOnce ==
    /\ [][env.name = "idle" /\ Delivers
            => now >= timeout /\ running' = timeout /\ obs.delivered = 0]_vars
    /\ [](env.name = "idle" => <>(obs.delivered = 1))

\* The idle sequence has waited to its end with its one delivery made.
C3_Witness ==
    /\ env.name = "idle"
    /\ timeout = DefaultBackstopTimeout
    /\ obs.delivered = 1
    /\ Settled
    /\ now = env.end

\* C4: after a MarkActivity at time t that found a deadline pending, no
\* backstop notification is delivered before t + T.
C4_NoDeliveryBeforeActivityPlusT == [][Delivers => now >= obs.notBefore]_vars

\* C5: the callback of a deadline that a bell (SetBackstopSent(true)) or a
\* keypress (DisableBackstopTimer) came before - the callback had been
\* started and had not yet acquired the lock - makes no delivery call.
C5_BellOrKeypressCancelsDeadline ==
    [][Delivers => running' \notin obs.cancelled]_vars

\* C6: after DisableBackstopTimer no backstop notification is delivered
\* until the next MarkActivity or ResetSession; the sequence
\* [start, wait 10, keypress, wait 35] with T = 30 makes no delivery call.
C6_NoDeliveryAfterKeypress ==
    /\ [][Delivers => ~obs.keypressLast]_vars
    /\ [](env.name = "keypress" => obs.delivered = 0)

\* The callback of a timer that had already fired ran after the keypress,
\* with backstopSent clear, and delivered nothing.
C6_Witness ==
    /\ obs.keypressLast
    /\ obs.lastOp = "sendBackstopNotification"
    /\ mu = "free"
    /\ ~backstopSent
    /\ ~idleNotificationSentSinceLastInteraction

\* C7: after a bell (SetBackstopSent(true)) no backstop notification is
\* delivered until the next ResetSession, whatever activity follows.
C7_NoDeliveryAfterBellUntilReset ==
    [][Delivers => ~obs.bellSinceReset]_vars

\* C8: ResetSession clears backstopSent, backstopDisabled and
\* idleNotificationSentSinceLastInteraction and arms a fresh deadline at T,
\* leaving no other timer armed; the sequence
\* [start, wait 35, screen-clear, wait 35] with T = 30 makes exactly two
\* delivery calls.
C8_ResetOpensFreshWindow ==
    /\ [][obs'.lastOp = "ResetSession"
            => /\ ~backstopSent'
               /\ ~backstopDisabled'
               /\ ~idleNotificationSentSinceLastInteraction'
               /\ timeout > 0 => timer' = now + timeout /\ armed' = {timer'}]_vars
    /\ [](env.name = "clear" => obs.delivered <= 2)
    /\ [](env.name = "clear" => <>(obs.delivered = 2))

\* The screen-clear sequence has waited to its end with two deliveries.
C8_Witness ==
    /\ env.name = "clear"
    /\ env.steps = <<>>
    /\ obs.delivered = 2
    /\ Settled
    /\ now = env.end

\* C9 (as stated): in [start, wait 10, visible output, wait 35] with T = 30
\* the one delivery occurs at about 45: it is made by a timer due at 45 and
\* not before 45.
C9_DeliveredAt45 ==
    [][env.name = "output" /\ Delivers => running' = 45 /\ now >= 45]_vars

\* C9 (amended): in [start, wait 10, visible output, wait 35] with T = 30
\* exactly one delivery call is made, by the timer the output armed, due at
\* 40 = 10 + T, and not before 40.
C9_DeliveredOnceAt40 ==
    /\ [][env.name = "output" /\ Delivers
            => /\ running' = 10 + DefaultBackstopTimeout
               /\ now >= 10 + DefaultBackstopTimeout
               /\ obs.delivered = 0]_vars
    /\ [](env.name = "output" => <>(obs.delivered = 1))

\* The one delivery of the output sequence is made at time 40.
C9_Witness ==
    /\ env.name = "output"
    /\ obs.delivered = 1
    /\ mu = "callback"
    /\ now = 40

\* C10: MarkActivity stops the pending timer and arms a fresh one at T, so
\* that it is the only armed timer, clears backstopSent, and leaves
\* idleNotificationSentSinceLastInteraction as it was; while a notification
\* has been delivered in the window the flag stays set.
C10_MarkActivityKeepsInteractionFlag ==
    /\ [][obs'.lastOp = "MarkActivity"
            => /\ ~backstopSent'
               /\ idleNotificationSentSinceLastInteraction'
                    = idleNotificationSentSinceLastInteraction
               /\ timeout > 0 => timer' = now + timeout /\ armed' = {timer'}]_vars
    /\ [](obs.windowDelivered => idleNotificationSentSinceLastInteraction)

\* MarkActivity has acted after a delivered notification, while the
\* previous timer was still counting down.
C10_Witness ==
    /\ obs.lastOp = "MarkActivity"
    /\ obs.windowDelivered
    /\ idleNotificationSentSinceLastInteraction
    /\ ~backstopSent
    /\ timer \in armed
    /\ obs.notBefore = now + timeout

\* C11 (as stated): Send forwards the notification and acts on the engine as
\* MarkActivity does: it stops the pending timer, clears backstopSent,
\* clears backstopDisabled and arms a fresh timer at T.
C11_SendSameAsActivity ==
    [][obs'.lastOp = "Send"
         => /\ obs'.forwarded = obs.forwarded + 1
            /\ ~backstopSent'
            /\ ~backstopDisabled'
            /\ timeout > 0 => timer' = now + timeout /\ armed' = {timer'}]_vars

\* C11 (amended): Send forwards the notification, stops the pending timer,
\* clears backstopSent and arms a fresh timer at T, the only one armed; it
\* leaves backstopDisabled and idleNotificationSentSinceLastInteraction as
\* they were.
C11_SendRestartsKeepsDisabled ==
    [][obs'.lastOp = "Send"
         => /\ obs'.forwarded = obs.forwarded + 1
            /\ ~backstopSent'
            /\ backstopDisabled' = backstopDisabled
            /\ idleNotificationSentSinceLastInteraction'
                 = idleNotificationSentSinceLastInteraction
            /\ timeout > 0 => timer' = now + timeout /\ armed' = {timer'}]_vars

\* Send has acted on a disabled engine whose previous timer was still
\* counting down, and the underlying Send has not returned yet.
C11_Witness ==
    /\ obs.lastOp = "Send"
    /\ mu = "send"
    /\ backstopDisabled
    /\ timeout > 0
    /\ now > 0
    /\ armed = {now + timeout}

\* C12: while the delivery call of the callback has not returned, the calls
\* of the output path (MarkActivity, SetBackstopSent, ResetSession) and of
\* the input tap (DisableBackstopTimer) can be made and completed.
C12_IOPathsNotBlockedDuringDelivery ==
    (mu = "callback" /\ env.free)
        => /\ ENABLED MarkActivity
           /\ ENABLED Bell
           /\ ENABLED ResetSession
           /\ ENABLED DisableBackstopTimer

\* C13: once Close has returned, no timer is armed, no later call arms one,
\* and no backstop delivery call is made.
C13_CloseIsTerminal ==
    /\ [](obs.closed => armed = {})
    /\ [][obs.closed => ~Delivers]_vars

\* C14: when the delivery call of the callback fails, the engine is left as
\* after a successful delivery - backstopSent and
\* idleNotificationSentSinceLastInteraction set, the lock released, no timer
\* armed or stopped - and no further delivery call is made until a
\* DisableBackstopTimer or a ResetSession.
C14_DeliveryErrorSwallowed ==
    /\ [][obs'.lastOp = "DeliveryFails"
            => /\ backstopSent'
               /\ idleNotificationSentSinceLastInteraction'
               /\ backstopDisabled' = backstopDisabled
               /\ mu' = "free"
               /\ timer' = timer
               /\ armed' = armed
               /\ pending' = pending]_vars
    /\ [][Delivers => ~obs.failed]_vars

\* After a failed delivery an activity cleared backstopSent and armed a new
\* timer; its callback ran and made no delivery call.
C14_Witness ==
    /\ obs.failed
    /\ obs.lastOp = "sendBackstopNotification"
    /\ mu = "free"
    /\ ~backstopSent
    /\ ~backstopDisabled
    /\ obs.delivered = 1

\* C15: with cfg.Quiet set no notification reaches the underlying notifier:
\* no pass-through (startup) notification is forwarded and no backstop
\* delivery call is made.
C15_QuietDeliversNothing ==
    env.quiet => obs.forwarded = 0 /\ obs.delivered = 0

\* C16: when one recognized sequence has been written to a fresh detector
\* in two or more chunks, the callbacks made over all the calls are those
\* of one call on the whole sequence; ESC [ 2 J in chunks makes exactly one
\* HandleScreenClear call.
C16_SplitSequenceSameEvents ==
    (out.kind = "single" /\ out.handler /\ out.rest = <<>>)
        => /\ seen.fired = Callbacks(Appended(<<>>, out.stream))
           /\ seen.fired # <<>>
           /\ out.stream = Esc(<<"[", "2", "J">>) => seen.fired = <<ScreenClear>>

\* ESC [ ? 1 0 4 9 h has been written byte by byte.
C16_Witness ==
    /\ out.kind = "single"
    /\ out.handler
    /\ out.rest = <<>>
    /\ out.stream = Esc(<<"[", "?", "1", "0", "4", "9", "h">>)
    /\ seen.calls = Len(out.stream)
    /\ seen.fired = <<ScreenClear>>

\* C17: one DetectSequences call makes at most one HandleScreenClear call,
\* and exactly one when its buffer holds several clear, status-interfering
\* or position-then-erase matches.
C17_OneScreenClearPerCall ==
    /\ Cardinality({ i \in DOMAIN seen.last : seen.last[i] = ScreenClear }) <= 1
    /\ (seen.calls > 0 /\ out.handler /\ ClearMatches(buffer) # {})
          => Cardinality({ i \in DOMAIN seen.last :
                             seen.last[i] = ScreenClear }) = 1

\* One call on ESC[H ESC[2K ESC[J: a clear sequence, a position followed by
\* an erase, and an erase-display, with one HandleScreenClear call.
C17_Witness ==
    /\ seen.calls = 1
    /\ out.rest = <<>>
    /\ Cardinality(ClearMatches(buffer)) >= 1
    /\ detectBottomLineClear(buffer)
    /\ \E i \in 0..(Len(buffer) - 6) : PositionThenErase(buffer, i)
    /\ seen.last = <<ScreenClear>>

\* The last n bytes of d, or all of d when it is shorter.
LastBytes(d, n) == IF Len(d) > n THEN SubSeq(d, Len(d) - n + 1, Len(d)) ELSE d

\* C18: with a non-nil handler the rolling buffer holds, after every call,
\* the most recent bytes of all the data written so far and at most
\* maxBufferSize of them; a clear sequence written after the buffer has
\* been trimmed is detected, once.
C18_BufferIsRecentTail ==
    /\ out.handler
          => /\ Len(buffer) <= maxBufferSize
             /\ buffer = LastBytes(out.fed, maxBufferSize)
    /\ (out.kind = "long" /\ out.rest = <<>>) => seen.fired = <<ScreenClear>>

\* More than maxBufferSize bytes of text were written, the buffer was
\* trimmed, and ESC [ 2 J then came in two chunks.
C18_Witness ==
    /\ out.kind = "long"
    /\ out.rest = <<>>
    /\ Len(out.fed) > maxBufferSize
    /\ Len(buffer) = maxBufferSize
    /\ seen.calls = 4
    /\ Contains(buffer, Esc(<<"[", "2", "J">>))
    /\ seen.last = <<ScreenClear>>

\* C19: containsVisibleContent is false for every chunk made up only of
\* recognized sequences (CSI, OSC ended by BEL or ESC \, charset
\* designation, 8-bit CSI) and control bytes, and true for every chunk with
\* a visible byte outside an escape sequence.
C19_VisibleContentClassified ==
    (out.kind = "chunk" /\ out.rest = <<>>)
        => /\ EscapeOnly(out.fed) => ~out.visible
           /\ VisibleOutside(out.fed) => out.visible

\* C20: while the child's output consists only of style and cursor-movement
\* sequences, however it is cut into chunks, HandleData does not call
\* MarkActivity and the timer armed at construction stays the armed one.
C20_StyleOutputIsNoActivity ==
    [][out.kind = "style"
         => obs'.lastOp # "MarkActivity" /\ timer' = timer]_vars

\* The newline-terminated lines of d that hold a bell.
BellLines(d) == { i \in Newlines(d) : HasBell(LineBefore(d, i)) }

\* C21: however the output is cut into HandleData calls, after every call
\* the bell scan has called SetBackstopSent(true) once for each terminated
\* line with a bell written so far, and the unterminated last line is what
\* the line buffer holds; Flush passes the buffered line through the scan,
\* as if a newline had ended it, and leaves the buffer empty.
C21_BellPerTerminatedLine ==
    /\ [](env.name = "monitor"
            => /\ out.bells = Cardinality(BellLines(out.lines))
               /\ lineBuffer = Remainder(out.lines))
    /\ [][obs'.lastOp = "Flush"
            => /\ lineBuffer' = <<>>
               /\ Len(env'.steps) = IF HasBell(lineBuffer) THEN 1 ELSE 0]_vars

\* a BEL LF BEL was written byte by byte: one call of the scan when the
\* newline came, none for the bell that follows it until Flush, which has
\* just queued the second.
C21_Witness ==
    /\ out.fed = A(<<"a">>) \o <<BEL, 10, BEL>>
    /\ seen.calls = 4
    /\ obs.lastOp = "Flush"
    /\ out.bells = 2
    /\ Queued("SetBackstopSent")
    /\ lineBuffer = <<>>

\* The place of a call in the order detector events, activity, bell scan.
Rank(op) == IF op = "ResetSession" THEN 1 ELSE IF op = "MarkActivity" THEN 2 ELSE 3

\* C22: the calls one HandleData makes on the engine come in the order
\* ResetSession (screen clear), MarkActivity (visible content),
\* SetBackstopSent (bell scan); once the calls of a chunk with visible
\* content and a bell-terminated line are made, backstopSent is set and no
\* timer is armed.
C22_ActivityBeforeBellScan ==
    /\ [][out'.fed # out.fed
            => \A i, j \in 1..Len(env'.steps) :
                 i < j => Rank(env'.steps[i].op) <= Rank(env'.steps[j].op)]_vars
    /\ [](env.name = "monitor" /\ env.steps = <<>> /\ out.visible /\ out.rang
            => backstopSent /\ timer \notin armed)

\* a BEL LF came in one chunk while the timer of the construction was
\* armed; MarkActivity and then SetBackstopSent have been called.
C22_Witness ==
    /\ out.fed = A(<<"a">>) \o <<BEL, 10>>
    /\ seen.calls = 1
    /\ out.visible /\ out.rang
    /\ env.steps = <<>>
    /\ obs.lastOp = "SetBackstopSent"
    /\ backstopSent /\ timer \notin armed

\* C23: SetFocused(v) with v the current focus value changes neither the
\* value nor the time of the last focus change; with the other value it
\* stores v and the current time.  A new terminal state is focused.
C23_FocusTimeOnlyOnChange ==
    /\ terminalState.focused
    /\ [][\A v \in BOOLEAN :
            obs'.lastOp = (IF v THEN "HandleFocusIn" ELSE "HandleFocusOut")
            => IF v = terminalState.focused
               THEN terminalState' = terminalState
               ELSE /\ terminalState'.focused = v
                    /\ terminalState'.lastFocusChange = now
                    /\ terminalState'.title = terminalState.title]_vars

\* Focus was lost and regained, time passed, and SetFocused(true) has just
\* been called again: the time of the last change is the earlier one.
C23_Witness ==
    /\ obs.lastOp = "HandleFocusIn"
    /\ terminalState.focused
    /\ terminalState.lastFocusChange > 0
    /\ terminalState.lastFocusChange < now

\* C24: the restore function is called at most once for each raw mode
\* that CopyIO acquired; when CopyIO has returned the real terminal is in
\* its original mode and nothing is left to restore; a Stop that finds
\* nothing to restore changes nothing of the terminal.
C24_RawModeRestoredOnce ==
    /\ [](proc.restored <= proc.acquired)
    /\ [](proc.copyIO = "returned"
            => /\ proc.mode = "original"
               /\ ~proc.restoreFunc
               /\ proc.restored = proc.acquired)
    /\ [][proc'.stops # proc.stops /\ ~proc.restoreFunc
            => /\ proc'.mode = proc.mode
               /\ proc'.restored = proc.restored
               /\ ~proc'.restoreFunc]_vars

\* CopyIO took the raw mode and has returned, Stop was called twice on the
\* way, and the restore function was called once.
C24_Witness ==
    /\ proc.copyIO = "returned"
    /\ proc.acquired = 1
    /\ proc.restored = 1
    /\ proc.stops >= 2
    /\ proc.mode = "original"

\* C25: Wait, called on a started manager, has returned only when the
\* child has exited, the resize watcher has returned and the two copy loops
\* that CopyIO started have ended.
C25_WaitAfterCopyLoops ==
    /\ proc.wait = "returned" /\ proc.stopChan = "closed"
    /\ proc.children > 0 /\ proc.input # "none"
    => /\ proc.child = "exited"
       /\ proc.watcher = "returned"
       /\ proc.input = "ended"
       /\ proc.output = "ended"

C27_StartFailsWhenStartedOrNoPTY ==
    [][proc'.starts # proc.starts
        => IF proc.cmd
           THEN /\ proc'.err = "process already started"
                /\ proc'.children = proc.children
                /\ proc'.child = proc.child
                /\ proc'.pty = proc.pty
           ELSE IF proc'.given[1]
           THEN /\ proc'.err = "nil"
                /\ proc'.children = proc.children + 1
                /\ proc'.child = "running"
                /\ proc'.logged = ~proc'.given[2]
           ELSE /\ proc'.err = "failed to start PTY"
                /\ proc'.children = proc.children
                /\ proc'.child = "none"]_vars

\* The first Start succeeded although the terminal size could not be
\* copied, and a second Start has just failed.
C27_Witness ==
    /\ proc.last = "Start"
    /\ proc.starts = 2
    /\ proc.children = 1
    /\ proc.logged
    /\ proc.err = "process already started"

\* C28: a callback that finds backstopSent, backstopDisabled or
\* idleNotificationSentSinceLastInteraction set makes no delivery call and
\* changes no flag and no timer; otherwise it makes one delivery call and
\* sets backstopSent and idleNotificationSentSinceLastInteraction; from
\* its start to its return it arms no timer.
C28_CallbackDeliversOnceOrNothing ==
    /\ [][(\E d \in pending : pending' = pending \ {d})
            => /\ timer' = timer /\ armed' = armed
               /\ backstopDisabled' = backstopDisabled
               /\ IF backstopSent \/ backstopDisabled
                     \/ idleNotificationSentSinceLastInteraction
                  THEN /\ obs'.delivered = obs.delivered
                       /\ flags' = flags
                       /\ mu' = mu
                  ELSE /\ obs'.delivered = obs.delivered + 1
                       /\ backstopSent'
                       /\ idleNotificationSentSinceLastInteraction']_vars
    /\ [][mu = "callback"
            => /\ obs'.delivered = obs.delivered
               /\ mu' = "callback"
                  \/ (timer' = timer /\ armed' = armed /\ flags' = flags)]_vars

\* The callback of a stopped timer has delivered, and the callback of the
\* next timer has just run and done nothing.
C28_Witness ==
    /\ obs.lastOp = "sendBackstopNotification"
    /\ mu = "free"
    /\ obs.delivered = 1
    /\ pending = {}
    /\ backstopSent /\ idleNotificationSentSinceLastInteraction
    /\ timer \notin armed

\* C29: DisableBackstopTimer sets backstopDisabled, clears
\* idleNotificationSentSinceLastInteraction, stops the timer and arms none;
\* in [start, wait 35, keypress, visible output at 36, wait to 70] with
\* T = 30 the notification delivered at 30 is followed by a second one, due
\* at 66 = 36 + T, and by no third.
C29_KeypressMakesNextIdleEligible ==
    /\ [][obs'.lastOp = "DisableBackstopTimer"
            => /\ backstopDisabled'
               /\ ~idleNotificationSentSinceLastInteraction'
               /\ timer' \notin armed'
               /\ armed' \subseteq armed]_vars
    /\ [][env.name = "again" /\ Delivers /\ obs.delivered = 1
            => running' = 36 + DefaultBackstopTimeout
               /\ now >= 36 + DefaultBackstopTimeout]_vars
    /\ [](env.name = "again" => obs.delivered <= 2)
    /\ [](env.name = "again" => <>(obs.delivered = 2))

\* The keypress sequence with output has made its second delivery at 66.
C29_Witness ==
    /\ env.name = "again"
    /\ env.steps = <<>>
    /\ obs.delivered = 2
    /\ mu = "callback"
    /\ now = 66

\* C30: with a timeout of 0 or less no timer is ever stored or armed, no
\* callback is ever started and no backstop notification is delivered,
\* whatever is called; Send still forwards its notification.
C30_NoTimeoutNoTimer ==
    /\ [](timeout <= 0
            => /\ timer = NoTimer
               /\ armed = {}
               /\ pending = {}
               /\ obs.delivered = 0)
    /\ [][timeout <= 0 /\ mu = "free" /\ mu' = "send"
            => obs'.forwarded = obs.forwarded + 1]_vars

\* With timeout 0, Send has forwarded a notification, time has passed and
\* ResetSession has just been called.
C30_Witness ==
    /\ timeout = 0
    /\ obs.forwarded = 1
    /\ obs.lastOp = "ResetSession"
    /\ now > 0
    /\ armed = {}

\* The callbacks of the given kind in the last DetectSequences call.
LastCalls(kind) == SelectSeq(seen.last, LAMBDA c : c.kind = kind)

\* The title of the title sequence that starts last in b.
LastTitle(b) ==
    LET s == Greatest({ i \in 0..(Len(b) - 1) : titleEnd(b, i) # -1 })
    IN titleOf(b, s, titleEnd(b, s))

\* C31: one DetectSequences call makes at most one HandleFocusIn, one
\* HandleFocusOut and one HandleTitleChange call; HandleFocusIn is called
\* iff the buffer holds the focus-in sequence and HandleFocusOut iff it
\* holds the focus-out sequence, each whatever the other does; the title
\* reported is that of the last title sequence in the buffer.
C31_FocusAndTitleOncePerCall ==
    /\ \A kind \in {"HandleFocusIn", "HandleFocusOut", "HandleTitleChange"} :
         Len(LastCalls(kind)) <= 1
    /\ (seen.calls > 0 /\ out.handler /\ out.kind # "long")
          => /\ LastCalls("HandleFocusIn") # <<>>
                  <=> Contains(buffer, focusInSequence)
             /\ LastCalls("HandleFocusOut") # <<>>
                  <=> Contains(buffer, focusOutSequence)
             /\ LastCalls("HandleTitleChange") # <<>>
                  <=> titleMatches(buffer, 0) # <<>>
             /\ LastCalls("HandleTitleChange") # <<>>
                  => LastCalls("HandleTitleChange")[1].title
                       = LastTitle(buffer)

\* ESC]0;a BEL ESC]2;b BEL has been written in several chunks: the call on
\* the last chunk found two title sequences and reported b.
C31_Witness ==
    /\ out.rest = <<>>
    /\ seen.calls > 1
    /\ Len(titleMatches(buffer, 0)) = 2
    /\ seen.last = <<TitleChange(A(<<"b">>))>>

\* C32: DetectSequences with a nil handler returns, calls nothing back and
\* leaves the rolling buffer as it was: the chunk is not appended.
C32_NilHandlerIsNoOp ==
    /\ [](~out.handler
            => buffer = <<>> /\ seen.fired = <<>> /\ seen.last = <<>>)
    /\ [][~out.handler /\ seen'.calls = seen.calls + 1
            => buffer' = buffer /\ seen'.fired = seen.fired]_vars

\* ESC [ 2 J has been written in two chunks to a detector that is called
\* with a nil handler.
C32_Witness ==
    /\ ~out.handler
    /\ out.fed = Esc(<<"[", "2", "J">>)
    /\ out.rest = <<>>
    /\ seen.calls = 2
    /\ buffer = <<>>

\* The positions in b, counted from 1, of the last bytes of the matches
\* that make foundClear true: the sequences of the two lists, ESC [ 0 J and
\* ESC [ J, and the erase of a position followed by an erase.
ClearEnds(b) ==
    { e \in 1..Len(b) :
        \/ \E q \in Range(screenClearSequences)
                    \cup Range(statusInterferingSequences)
                    \cup {Esc(<<"[", "0", "J">>), Esc(<<"[", "J">>)} :
              /\ Len(q) <= e
              /\ SubSeq(b, e - Len(q) + 1, e) = q
        \/ \E n \in 0..(e - 6) :
              /\ PositionThenErase(SubSeq(b, 1, e), n)
              /\ n <= e - 7 => ~PositionThenErase(SubSeq(b, 1, e - 1), n) }

\* C33: a DetectSequences call makes a HandleScreenClear call only when its
\* chunk completes a clear, status-interfering or position-then-erase
\* sequence: some match ends in the bytes the call has appended.
C33_ClearOnlyWhenCompleted ==
    [][seen'.calls = seen.calls + 1 /\ out.handler
         /\ ScreenClear \in Range(seen'.last)
        => \E e \in ClearEnds(out'.fed) : e > Len(out.fed)]_vars

\* C34: every backstop delivery is made by the callback of the timer armed
\* last, the one bn.timer holds, and not before its deadline: the callback
\* of a timer that fired and was then stopped or replaced delivers nothing.
C34_DeliveryFromLatestTimer ==
    [][Delivers => running' = timer /\ now >= timer]_vars

\* C35: once Manager.Wait has returned for a child that was started, the
\* real terminal is in its original mode, however the CopyIO goroutine
\* interleaves with Wait and Stop.
C35_TerminalRestoredAfterWait ==
    (proc.managerWait = "returned" /\ proc.stopChan = "closed"
       /\ proc.children > 0)
    => proc.mode = "original"

\* The order in which the mutexes are taken.
LockOrder == [m \in Mutexes |-> IF m = "om.mu" THEN 1
                                ELSE IF m = "bn.mu" THEN 2 ELSE 3]

\* The goroutine is inside a call and its next step can be taken.
CanStep(g) ==
    /\ locks.todo[g] # <<>>
    /\ Head(locks.todo[g]).op = "Lock"
         => locks.owner[Head(locks.todo[g]).mu] = "none"

\* C36: a goroutine that holds a mutex takes only mutexes that come later
\* in the order om.mu, bn.mu, ts.mu; and whenever goroutines are inside
\* calls, one of them can take its next step: there is no deadlock.
C36_LocksAcyclicNoDeadlock ==
    /\ \A g \in Goroutines : \A held \in Mutexes :
         (/\ locks.owner[held] = g
          /\ locks.todo[g] # <<>>
          /\ Head(locks.todo[g]).op = "Lock")
         => LockOrder[held] < LockOrder[Head(locks.todo[g]).mu]
    /\ (\E g \in Goroutines : locks.todo[g] # <<>>)
         => \E g \in Goroutines : CanStep(g)

\* HandleData holds om.mu and waits for bn.mu, which the delivering
\* callback holds together with ts.mu, while the input handler waits for
\* bn.mu too.
C36_Witness ==
    /\ locks.owner["om.mu"] = "output"
    /\ locks.owner["bn.mu"] = "timer"
    /\ locks.owner["ts.mu"] = "timer"
    /\ locks.todo["output"] # <<>>
    /\ Head(locks.todo["output"]).mu = "bn.mu"
    /\ locks.todo["input"] # <<>>
    /\ ~CanStep("input")

\* The positions in d at which the sequence q begins.
Starts(d, q) ==
    { i \in 1..(Len(d) - Len(q) + 1) : SubSeq(d, i, i + Len(q) - 1) = q }

\* C37: when the output monitor has been given focus sequences, focused is
\* the polarity of the one that came last in the stream: true iff the last
\* focus sequence is focus-in, however the stream was cut into chunks.
C37_FocusIsLastSequence ==
    (/\ env.name = "monitor"
     /\ Starts(out.fed, focusInSequence) \cup Starts(out.fed, focusOutSequence) # {})
    => (terminalState.focused
          <=> Greatest(Starts(out.fed, focusInSequence)
                       \cup Starts(out.fed, focusOutSequence))
                \in Starts(out.fed, focusInSequence))

\* C38: at most one timer is armed and not yet fired, and it is the one
\* bn.timer holds; SetBackstopSent(true), DisableBackstopTimer and Close
\* leave no timer armed.
C38_AtMostOneArmedTimer ==
    /\ [](Cardinality(armed) <= 1 /\ armed \subseteq {timer})
    /\ [][obs'.lastOp \in {"SetBackstopSent", "DisableBackstopTimer", "Close"}
            => armed' = {}]_vars

\* A timer armed after the construction was stopped by Close before its
\* deadline.
C38_Witness ==
    /\ obs.lastOp = "Close"
    /\ timeout > 0
    /\ timer > timeout
    /\ timer > now
    /\ armed = {}

\* C39: a Start that fails in creating the PTY or the process leaves the
\* manager not started (p.cmd nil), and a Start that follows only such
\* failures is not rejected as "process already started".
C39_FailedStartLeavesNotStarted ==
    [][proc'.starts = proc.starts + 1
         => /\ proc'.err = "failed to start PTY" => ~proc'.cmd
            /\ proc.starts > 0 /\ proc.children = 0
                 => proc'.err # "process already started"]_vars

\* C40: idleNotificationSentSinceLastInteraction goes from true to false
\* in DisableBackstopTimer and in ResetSession only; Send, MarkActivity,
\* SetBackstopSent, the deadline callback and Close leave a set flag set.
C40_OnlyInteractionClearsFlag ==
    [][idleNotificationSentSinceLastInteraction
         /\ ~idleNotificationSentSinceLastInteraction'
         => obs'.lastOp \in {"DisableBackstopTimer", "ResetSession"}]_vars

\* SetBackstopSent has run after a delivery, and the flag is still set.
C40_Witness ==
    /\ obs.lastOp = "SetBackstopSent"
    /\ obs.delivered > 0
    /\ idleNotificationSentSinceLastInteraction

====
